---- MODULE Spec2Model ----
(***************************************************************************)
(* A model of the fyzenor terminal file manager (FileManager): the         *)
(* catalog / selection / clipboard / pin state machine driven by the key   *)
(* loop of run(), and the asynchronous preview pipeline (detached worker   *)
(* threads, single-slot cache, commit gate, ready flag).                   *)
(*                                                                         *)
(* Paths are sequences of names, the root directory being <<>>.  Names are *)
(* strings; what the code computes from a name's characters (hidden test,  *)
(* extension, ordering) is computed from the name's bytes, NameBytes.      *)
(* The cursor selectedIndex is 0-based as in the code, so the entry under  *)
(* the cursor is currentFiles[selectedIndex + 1].                          *)
(***************************************************************************)
EXTENDS Integers, Sequences, FiniteSets, TLC

VARIABLES
  fs,                 \* the filesystem: path -> "dir" or a file's content
  xdev,               \* TRUE when directory /d is a mount point (another device)
  noSearch,           \* the directories without search permission (mode r--)
  legacy,             \* TRUE: the build of file_manager.cpp (synchronous previews)
  currentPath, currentFiles, parentFiles, multiSelection,
  pinnedPaths, pinnedIndex, focusPinned, selectedIndex,
  clipboard, statusMessage, showHidden,
  pinFile,            \* the bytes of the persisted pin file
  needsRedraw,        \* local of run()
  uiPc,               \* position of the render thread in run()
  keysLeft,           \* keys the user will still press
  previewMutex,       \* holder of previewMutex
  imageReady, cachedBase64, cachedTextLines, cachedPath,
  requestedPath, requestID, lastWasDirectRender,
  placements,         \* image placements live on the terminal
  kitty,              \* sendKittyGraphics: its argument, its offset, its output
  textJob,            \* body of a text job: its inputs, its lines, the tools it ran
  workers,            \* the detached preview threads, workers[i] has reqId = i
  tempFile,           \* the content of PREVIEW_TEMP
  match,              \* local of drawPreview
  fromCache,          \* observation: what the last drawFromCache call read
  cachedGen,          \* observation: reqId of the worker that last wrote the slot
  obs                 \* observation: what the last key handler did

previewVars ==
  << previewMutex, imageReady, cachedBase64, cachedTextLines, cachedPath,
     requestedPath, requestID, workers, tempFile, match, cachedGen >>

fileVars ==
  << fs, xdev, noSearch, legacy, currentPath, currentFiles, parentFiles, multiSelection,
     clipboard, showHidden, kitty, textJob >>

pinVars == << pinnedPaths, pinnedIndex, focusPinned, pinFile >>

vars ==
  << fs, xdev, noSearch, legacy, currentPath, currentFiles, parentFiles, multiSelection,
     pinnedPaths, pinnedIndex, focusPinned, selectedIndex, clipboard,
     statusMessage, showHidden, pinFile, needsRedraw, uiPc, keysLeft,
     previewMutex, imageReady, cachedBase64, cachedTextLines, cachedPath,
     requestedPath, requestID, lastWasDirectRender, placements, kitty, textJob,
     workers, tempFile, match, fromCache, cachedGen, obs >>

----------------------------------------------------------------------------
(* Bounds *)

\* Keys pressed in a run of the preview pipeline.
MaxKeys == 2

\* Keys pressed in a run of the file operations.
MaxOps == 3

\* Keys pressed in a run of the clipboard operations.
MaxPasteOps == 4

\* Catalog loads in a run of the directory listing.
MaxLoads == 2

\* Keys pressed in a run of the pin operations.
MaxPinOps == 4

\* Full chunks in the longest payload handed to sendKittyGraphics.
MaxChunks == 2

\* Keys pressed in a run of the image placements.
MaxPlaceKeys == 3

\* Keys pressed in a run with an unsearchable directory.
MaxDeniedKeys == 4

\* Keys pressed in a run of previews and a paste.
MaxStaleKeys == 4

\* Keys pressed in a run that ends with quit.
MaxQuitKeys == 2

----------------------------------------------------------------------------
(* Names, extensions, ordering *)

\* The empty std::string: no path, no payload.
EMPTY == <<"">>

\* previewMutex when no thread holds it; a holder is << "ui" >> or
\* << "worker", reqId >>.
Free == << "free" >>

\* fromCache before drawFromCache has run in the current pass.
NotRead == [ read |-> FALSE, sel |-> EMPTY, cpath |-> EMPTY, payload |-> EMPTY ]

NameBytes ==
  "d" :> <<100>> @@ "e" :> <<101>> @@ "a" :> <<97>> @@ "b" :> <<98>> @@
  "c" :> <<99>> @@ "f" :> <<102>> @@ "B" :> <<66>> @@ "g" :> <<103>> @@
  "x" :> <<120>> @@ "y" :> <<121>> @@ "x\ny" :> <<120,10,121>> @@
  "s" :> <<115>> @@ ".h" :> <<46,104>> @@ "n" :> <<110>> @@ "z.zip" :> <<122,46,122,105,112>> @@
  "a.png" :> <<97,46,112,110,103>> @@ "b.png" :> <<98,46,112,110,103>> @@
  "c.txt" :> <<99,46,116,120,116>> @@ "e.md" :> <<101,46,109,100>>

VIDEO_EXTS ==
  { <<46,109,112,52>>, <<46,109,107,118>>, <<46,97,118,105>>,
    <<46,109,111,118>>, <<46,102,108,118>>, <<46,119,109,118>>,
    <<46,119,101,98,109>> }

IMAGE_EXTS ==
  { <<46,112,110,103>>, <<46,106,112,103>>, <<46,106,112,101,103>>,
    <<46,103,105,102>>, <<46,98,109,112>>, <<46,119,101,98,112>>,
    <<46,115,118,103>>, <<46,116,105,102,102>> }

CODE_EXTS ==
  { <<46,99,112,112>>, <<46,104>>, <<46,104,112,112>>, <<46,99>>,
    <<46,99,99>>, <<46,112,121>>, <<46,106,115>>, <<46,116,115>>,
    <<46,114,115>>, <<46,103,111>>, <<46,106,97,118,97>>, <<46,114,98>>,
    <<46,112,104,112>>, <<46,104,116,109,108>>, <<46,99,115,115>>,
    <<46,115,99,115,115>>, <<46,106,115,111,110>>, <<46,120,109,108>>,
    <<46,121,97,109,108>>, <<46,121,109,108>>, <<46,116,111,109,108>>,
    <<46,105,110,105>>, <<46,115,104>>, <<46,98,97,115,104>>,
    <<46,122,115,104>>, <<46,108,117,97>>, <<46,109,100>>,
    <<46,116,120,116>>, <<46,99,111,110,102>>, <<46,100,105,102,102>>,
    <<46,112,97,116,99,104>>, <<46,115,113,108>>, <<46,99,109,97,107,101>>,
    <<46,109,97,107,101>>, <<46,100,111,99,107,101,114,102,105,108,101>> }

\* '.' as a byte.
Dot == 46

\* '\n' as a byte.
Newline == 10

\* '/' as a byte.
Slash == 47

\* The name a run of bytes spells.
NameOf(bytes) == CHOOSE n \in DOMAIN NameBytes : NameBytes[n] = bytes

\* ::tolower on one byte.
ToLower(c) == IF c >= 65 /\ c <= 90 THEN c + 32 ELSE c

\* fs::path::extension of a filename, lower-cased (FileEntry constructor):
\* from the last '.', empty when there is none or when the only '.' leads.
Extension(name) ==
  LET b == NameBytes[name]
      dots == { i \in 1..Len(b) : b[i] = Dot }
  IN IF dots = {} THEN << >>
     ELSE LET last == CHOOSE i \in dots : \A j \in dots : j <= i
          IN IF last = 1 THEN << >>
             ELSE [ i \in 1..(Len(b) - last + 1) |-> ToLower(b[last + i - 1]) ]

\* filename().string().front() == '.'
IsHiddenName(name) == NameBytes[name][1] = Dot

\* std::string operator< : lexicographic on the bytes.
NameLess(a, b) ==
  LET x == NameBytes[a]
      y == NameBytes[b]
      n == IF Len(x) < Len(y) THEN Len(x) ELSE Len(y)
      diff == { i \in 1..n : x[i] # y[i] }
  IN IF diff = {} THEN Len(x) < Len(y)
     ELSE LET i == CHOOSE k \in diff : \A j \in diff : k <= j
          IN x[i] < y[i]

----------------------------------------------------------------------------
(* The filesystem *)

\* fs::path::filename
Filename(p) == p[Len(p)]

\* fs::path::parent_path
ParentPath(p) == IF p = << >> THEN << >> ELSE SubSeq(p, 1, Len(p) - 1)

\* operator/ on paths
Join(p, name) == Append(p, name)

Exists(f, p) == p \in DOMAIN f

IsDirectory(f, p) == p \in DOMAIN f /\ f[p] = "dir"

IsPrefix(p, q) == Len(p) <= Len(q) /\ SubSeq(q, 1, Len(p)) = p

\* The entries a directory_iterator over p yields.
Children(f, p) == { q \in DOMAIN f : Len(q) = Len(p) + 1 /\ IsPrefix(p, q) }

\* FileEntry(const fs::path &p)
FileEntry(f, p) ==
  [ path |-> p, name |-> Filename(p), is_directory |-> IsDirectory(f, p),
    extension |-> Extension(Filename(p)) ]

\* std::sort with the comparator a.name < b.name, on a set of paths that
\* differ in name: each path lands behind the paths whose name is less.
SortByName(S) ==
  [ i \in 1..Cardinality(S) |->
      CHOOSE x \in S :
        Cardinality({ y \in S : NameLess(Filename(y), Filename(x)) }) = i - 1 ]

\* The entries of one listing pass of loadDirectory.
Listed(f, path, hidden, wantDirs) ==
  { q \in Children(f, path) :
      /\ (hidden \/ ~IsHiddenName(Filename(q)))
      /\ IsDirectory(f, q) = wantDirs }

\* A load with one sort over directories and files alike.
LoadDirectoryOneSort(f, path, hidden) ==
  IF ~IsDirectory(f, path) THEN << >>
  ELSE LET all == SortByName(Listed(f, path, hidden, TRUE)
                               \cup Listed(f, path, hidden, FALSE))
       IN [ i \in 1..Len(all) |-> FileEntry(f, all[i]) ]

\* The catalog loadDirectory builds: directories, then files, each run
\* sorted; empty when the directory cannot be iterated.
LoadDirectory(f, path, hidden) ==
  IF ~IsDirectory(f, path) THEN << >>
  ELSE LET ds == SortByName(Listed(f, path, hidden, TRUE))
           fl == SortByName(Listed(f, path, hidden, FALSE))
       IN [ i \in 1..(Len(ds) + Len(fl)) |->
              FileEntry(f, IF i <= Len(ds) THEN ds[i] ELSE fl[i - Len(ds)]) ]

\* A loadDirectory without multiSelection.clear().
LoadSelectionKept(sel) == sel

\* The entries of seen (what the directory_iterator yielded, in its order,
\* before it threw) that a listing pass emplaces.
Emplaced(f, seen, hidden, wantDirs) ==
  LET kept == SelectSeq(seen, LAMBDA q :
                /\ (hidden \/ ~IsHiddenName(Filename(q)))
                /\ IsDirectory(f, q) = wantDirs)
  IN [ i \in 1..Len(kept) |-> FileEntry(f, kept[i]) ]

\* The catalog loadDirectory leaves when the filesystem throws: pass 0 on
\* opening the directory, pass 1 during the directory listing (before its
\* sort), pass 2 during the file listing (after the sort of the
\* directories, before the sort of the files).
LoadDirectoryThrowing(f, path, hidden, pass, seen) ==
  IF pass = 0 THEN << >>
  ELSE IF pass = 1 THEN Emplaced(f, seen, hidden, TRUE)
  ELSE LET ds == SortByName(Listed(f, path, hidden, TRUE))
       IN [ i \in 1..Len(ds) |-> FileEntry(f, ds[i]) ]
            \o Emplaced(f, seen, hidden, FALSE)

\* The orders in which a directory_iterator can yield entries of S before
\* it throws.
Yielded(S) ==
  { seq \in UNION { [ 1..n -> S ] : n \in 0..Cardinality(S) } :
      \A i, j \in 1..Len(seq) : i # j => seq[i] # seq[j] }

\* The selection set loadDirectory leaves behind.
LoadSelection(sel) == {}

HasParent(p) == p # ParentPath(p)

\* The parent catalog loadParent builds.
LoadParent(f, path, hidden) ==
  IF HasParent(path) THEN LoadDirectory(f, ParentPath(path), hidden) ELSE << >>

----------------------------------------------------------------------------
(* Filesystem calls: each yields ok (FALSE: the call throws), the error, and
   the filesystem it leaves *)

\* Longest path the filesystem accepts, in components (PATH_MAX scaled down).
MaxDepth == 3

Ok(f) == [ ok |-> TRUE, err |-> "", f |-> f ]

Fail(e, f) == [ ok |-> FALSE, err |-> e, f |-> f ]

Subtree(f, p) == { q \in DOMAIN f : IsPrefix(p, q) }

\* The path q of the subtree at src, moved under dst.
Rebase(q, src, dst) == dst \o SubSeq(q, Len(src) + 1, Len(q))

Restrict(f, S) == [ q \in S |-> f[q] ]

\* The device a path lives on: /d is a mount point when xdev is set.
Device(p, x) == IF x /\ IsPrefix(<< "d" >>, p) THEN "dev2" ELSE "dev1"

\* fs::remove_all(p)
RemoveAll(f, p) == Restrict(f, DOMAIN f \ Subtree(f, p))

\* fs::rename(src, dst): rename(2)
Rename(f, src, dst, x) ==
  IF ~Exists(f, src) THEN Fail("ENOENT", f)
  ELSE IF ~IsDirectory(f, ParentPath(dst)) THEN Fail("ENOENT", f)
  ELSE IF src = dst THEN Ok(f)
  ELSE IF IsPrefix(src, dst) THEN Fail("EINVAL", f)
  ELSE IF Device(src, x) # Device(dst, x) THEN Fail("EXDEV", f)
  ELSE IF Exists(f, dst) /\ IsDirectory(f, src) /\ ~IsDirectory(f, dst)
    THEN Fail("ENOTDIR", f)
  ELSE IF Exists(f, dst) /\ ~IsDirectory(f, src) /\ IsDirectory(f, dst)
    THEN Fail("EISDIR", f)
  ELSE IF Exists(f, dst) /\ IsDirectory(f, dst) /\ Children(f, dst) # {}
    THEN Fail("ENOTEMPTY", f)
  ELSE LET moved == Subtree(f, src)
           kept == DOMAIN f \ (moved \cup Subtree(f, dst))
       IN Ok([ q \in kept \cup { Rebase(m, src, dst) : m \in moved } |->
                 IF q \in kept THEN f[q]
                 ELSE f[CHOOSE m \in moved : Rebase(m, src, dst) = q] ])

\* fs::copy_file(src, dst) with copy_options::none
CopyFile(f, src, dst) ==
  IF Exists(f, dst) THEN Fail("EEXIST", f)
  ELSE IF ~IsDirectory(f, ParentPath(dst)) THEN Fail("ENOENT", f)
  ELSE IF Len(dst) > MaxDepth THEN Fail("ENAMETOOLONG", f)
  ELSE Ok(dst :> f[src] @@ f)

\* fs::copy(src, dst) and fs::copy(src, dst, copy_options::recursive): a
\* file is copied to dst (into dst when dst is a directory); a directory is
\* created at dst unless it exists and its entries are copied one by one,
\* the first failure ending the copy with what was copied so far.
RECURSIVE Copy(_, _, _)
RECURSIVE CopyEntries(_, _, _)
Copy(f, src, dst) ==
  IF ~Exists(f, src) THEN Fail("ENOENT", f)
  ELSE IF src = dst THEN Fail("EEXIST", f)
  ELSE IF ~IsDirectory(f, src)
    THEN IF IsDirectory(f, dst) THEN CopyFile(f, src, Join(dst, Filename(src)))
         ELSE CopyFile(f, src, dst)
  ELSE IF Exists(f, dst) /\ ~IsDirectory(f, dst) THEN Fail("EISDIR", f)
  ELSE IF Len(dst) > MaxDepth THEN Fail("ENAMETOOLONG", f)
  ELSE IF ~Exists(f, dst) /\ ~IsDirectory(f, ParentPath(dst))
    THEN Fail("ENOENT", f)
  ELSE LET made == IF Exists(f, dst) THEN f ELSE dst :> "dir" @@ f
       IN CopyEntries(made, SortByName(Children(made, src)), dst)

\* r is the outcome of copying the first entry.
CopyEntries(f, entries, dst) ==
  IF entries = << >> THEN Ok(f)
  ELSE CHOOSE out \in
         { IF r.ok THEN CopyEntries(r.f, Tail(entries), dst) ELSE r :
             r \in { Copy(f, Head(entries),
                          Join(dst, Filename(Head(entries)))) } } : TRUE

\* fs::create_directory(p): "made" is its return value.
CreateDirectory(f, p) ==
  IF IsDirectory(f, p) THEN [ ok |-> TRUE, err |-> "", f |-> f, made |-> FALSE ]
  ELSE IF Exists(f, p)
    THEN [ ok |-> FALSE, err |-> "EEXIST", f |-> f, made |-> FALSE ]
  ELSE IF ~IsDirectory(f, ParentPath(p))
    THEN [ ok |-> FALSE, err |-> "ENOENT", f |-> f, made |-> FALSE ]
  ELSE [ ok |-> TRUE, err |-> "", f |-> p :> "dir" @@ f, made |-> TRUE ]

\* std::ofstream(p).close(): creates the file or truncates it; nothing
\* happens when it cannot be opened.
CreateFile(f, p) ==
  IF IsDirectory(f, p) \/ ~IsDirectory(f, ParentPath(p)) THEN f
  ELSE [ q \in DOMAIN f \cup { p } |-> IF q = p THEN "" ELSE f[q] ]

----------------------------------------------------------------------------
(* The render pass *)

\* A loop without the clamp.
ClampIndexSkipped(idx, size) == idx

\* The clamp at the top of run()'s loop.
ClampIndex(idx, size) ==
  IF size # 0 THEN (IF idx >= size THEN size - 1 ELSE idx) ELSE 0

\* The type drawPreview routes an entry to.
PreviewKind(e) ==
  IF e.is_directory THEN "DIR"
  ELSE IF e.extension \in VIDEO_EXTS \/ e.extension \in IMAGE_EXTS THEN "IMAGE"
  ELSE IF e.extension \in CODE_EXTS THEN "TEXT"
  ELSE "NONE"

\* The entry drawPreview works on.
Selected == currentFiles[selectedIndex + 1]

\* The still frame the transcoder scales from what the file at path holds
\* when it runs.
Thumbnail(path) ==
  << "thumb", path, IF Exists(fs, path) THEN fs[path] ELSE "" >>

\* The lines the highlighter produces from what the file at path holds
\* when it runs.
Highlighted(path) ==
  << "lines", path, IF Exists(fs, path) THEN fs[path] ELSE "" >>

\* A clearDirectRender that writes nothing to the terminal.
ClearDirectRenderUnwritten ==
  /\ lastWasDirectRender' = FALSE
  /\ UNCHANGED placements

\* clearDirectRender: the delete-all-placements sequence, and the flag.
ClearDirectRender ==
  /\ lastWasDirectRender' = FALSE
  /\ placements' = 0

\* if (needsRedraw): clamp, drawPinned, drawParent, drawCurrent, and
\* drawPreview up to its first lock; the pass ends here for a directory, an
\* empty catalog, a cursor past the catalog's end (drawPreview returns), or
\* a file of no previewable type.
Render ==
  /\ uiPc = "loop"
  /\ needsRedraw
  /\ LET idx == ClampIndex(selectedIndex, Len(currentFiles))
         stray == currentFiles # << >> /\ idx >= Len(currentFiles)
         async == /\ ~legacy
                  /\ currentFiles # << >>
                  /\ ~stray
                  /\ PreviewKind(currentFiles[idx + 1]) \in {"IMAGE", "TEXT"}
     IN /\ selectedIndex' = idx
        /\ IF lastWasDirectRender
             THEN ClearDirectRender
             ELSE UNCHANGED << lastWasDirectRender, placements >>
        /\ fromCache' = NotRead
        /\ obs' = [ obs EXCEPT !.clamped = obs.clamped \/ idx # selectedIndex ]
        /\ IF async
             THEN uiPc' = "check" /\ UNCHANGED needsRedraw
             ELSE uiPc' = "getch" /\ needsRedraw' = FALSE
  /\ UNCHANGED << fileVars, pinVars, statusMessage, keysLeft, previewVars >>

\* drawPreview: { lock_guard; if (cachedPath == file.path.string()) match = true; }
PathCheck ==
  /\ uiPc = "check"
  /\ previewMutex = Free
  /\ previewMutex' = << "ui" >>
  /\ match' = (cachedPath = Selected.path)
  /\ uiPc' = "checked"
  /\ UNCHANGED << fileVars, pinVars, selectedIndex, statusMessage, needsRedraw,
                  keysLeft, imageReady, cachedBase64, cachedTextLines,
                  cachedPath, requestedPath, requestID, lastWasDirectRender, placements,
                  workers, tempFile, fromCache, cachedGen, obs >>

\* The thread startAsyncPreview detaches.
NewWorker(path, type) ==
  [ pc |-> IF type = "IMAGE" THEN "rm" ELSE "text",
    path |-> path, type |-> type, b64 |-> EMPTY, lines |-> EMPTY ]

\* A dispatch that does not record the path it was asked for.
StartAsyncPreviewUnrecorded(path, type) ==
  /\ requestID' = requestID + 1
  /\ UNCHANGED requestedPath
  /\ imageReady' = FALSE
  /\ workers' = Append(workers, NewWorker(path, type))

\* startAsyncPreview: requestID++, requestedPath = path, imageReady = false,
\* and the detached thread with reqId = requestID.
StartAsyncPreview(path, type) ==
  /\ requestID' = requestID + 1
  /\ requestedPath' = path
  /\ imageReady' = FALSE
  /\ workers' = Append(workers, NewWorker(path, type))

\* drawPreview after the first lock is released: paint from the cache, or
\* dispatch a job, or leave the pane at "Loading...".
AfterCheck ==
  /\ uiPc = "checked"
  /\ previewMutex' = Free
  /\ IF match
       THEN /\ uiPc' = "paint"
            /\ UNCHANGED << needsRedraw, requestID, requestedPath, imageReady,
                            workers >>
       ELSE /\ uiPc' = "getch"
            /\ needsRedraw' = FALSE
            /\ IF requestedPath # Selected.path
                 THEN StartAsyncPreview(Selected.path, PreviewKind(Selected))
                 ELSE UNCHANGED << requestID, requestedPath, imageReady,
                                   workers >>
  /\ UNCHANGED << fileVars, pinVars, selectedIndex, statusMessage, keysLeft,
                  cachedBase64, cachedTextLines, cachedPath,
                  lastWasDirectRender, placements, tempFile, match, fromCache, cachedGen,
                  obs >>

\* What drawFromCache(type) reads under its lock: the payload it paints
\* (EMPTY: nothing is painted).
CachePayload(type) ==
  IF type = "IMAGE" THEN cachedBase64 ELSE cachedTextLines

\* drawFromCache: lock, read the payload of the given type, paint it.
DrawFromCache ==
  /\ uiPc = "paint"
  /\ previewMutex = Free
  /\ previewMutex' = << "ui" >>
  /\ LET payload == CachePayload(PreviewKind(Selected))
     IN /\ fromCache' = [ read |-> TRUE, sel |-> Selected.path, cpath |-> cachedPath,
                          payload |-> payload ]
        /\ lastWasDirectRender' = (payload # EMPTY)
        /\ placements' =
             IF PreviewKind(Selected) = "IMAGE" /\ payload # EMPTY
               THEN placements + 1 ELSE placements
  /\ uiPc' = "painted"
  /\ UNCHANGED << fileVars, pinVars, selectedIndex, statusMessage, needsRedraw,
                  keysLeft, imageReady, cachedBase64, cachedTextLines,
                  cachedPath, requestedPath, requestID, workers, tempFile,
                  match, cachedGen, obs >>

\* drawFromCache returns (lock released); the pass ends: needsRedraw = false.
EndPaint ==
  /\ uiPc = "painted"
  /\ previewMutex' = Free
  /\ needsRedraw' = FALSE
  /\ uiPc' = "getch"
  /\ UNCHANGED << fileVars, pinVars, selectedIndex, statusMessage, keysLeft,
                  imageReady, cachedBase64, cachedTextLines, cachedPath,
                  requestedPath, requestID, lastWasDirectRender, placements, workers,
                  tempFile, match, fromCache, cachedGen, obs >>

\* getch() == ERR with the flag set: if (imageReady) { needsRedraw = true; ...
PollReady ==
  /\ uiPc = "getch"
  /\ imageReady
  /\ needsRedraw' = TRUE
  /\ uiPc' = "pollClear"
  /\ UNCHANGED << fileVars, pinVars, selectedIndex, statusMessage, keysLeft,
                  previewVars, lastWasDirectRender, placements, fromCache, obs >>

\* ... imageReady = false; } continue;
PollClear ==
  /\ uiPc = "pollClear"
  /\ imageReady' = FALSE
  /\ uiPc' = "loop"
  /\ UNCHANGED << fileVars, pinVars, selectedIndex, statusMessage, needsRedraw,
                  keysLeft, previewMutex, cachedBase64, cachedTextLines,
                  cachedPath, requestedPath, requestID, lastWasDirectRender, placements,
                  workers, tempFile, match, fromCache, cachedGen, obs >>

----------------------------------------------------------------------------
(* The preview workers *)

\* The process runs: main has not returned to exit(), and nothing has
\* killed it.
Alive == uiPc \notin { "exited", "crashed", "terminated" }

\* A detached thread of a running process.
IsWorker(w) == w \in 1..Len(workers) /\ Alive

SetWorker(w, rec) == workers' = [ workers EXCEPT ![w] = rec ]

workerFrame ==
  << fileVars, pinVars, selectedIndex, statusMessage, needsRedraw, uiPc,
     keysLeft, requestedPath, requestID, lastWasDirectRender, placements, match,
     fromCache, obs >>

\* Image job: fs::remove(PREVIEW_TEMP)
WRemoveTemp(w) ==
  /\ IsWorker(w)
  /\ workers[w].pc = "rm"
  /\ tempFile' = EMPTY
  /\ SetWorker(w, [ workers[w] EXCEPT !.pc = "ffmpeg" ])
  /\ UNCHANGED << workerFrame, previewMutex, imageReady, cachedBase64,
                  cachedTextLines, cachedPath, cachedGen >>

\* Image job: system("ffmpeg -y ... PREVIEW_TEMP"); a transcoder that fails
\* writes nothing, and it fails when its input is gone.
WTranscode(w) ==
  /\ IsWorker(w)
  /\ workers[w].pc = "ffmpeg"
  /\ \E ok \in IF Exists(fs, workers[w].path) THEN BOOLEAN ELSE { FALSE } :
       tempFile' = IF ok THEN Thumbnail(workers[w].path) ELSE tempFile
  /\ SetWorker(w, [ workers[w] EXCEPT !.pc = "read" ])
  /\ UNCHANGED << workerFrame, previewMutex, imageReady, cachedBase64,
                  cachedTextLines, cachedPath, cachedGen >>

\* Image job: read PREVIEW_TEMP back and base64-encode it (b64 stays empty
\* when the file cannot be opened).
WReadTemp(w) ==
  /\ IsWorker(w)
  /\ workers[w].pc = "read"
  /\ SetWorker(w, [ workers[w] EXCEPT !.pc = "commit", !.b64 = tempFile ])
  /\ UNCHANGED << workerFrame, previewMutex, imageReady, cachedBase64,
                  cachedTextLines, cachedPath, tempFile, cachedGen >>

\* A highlighter run under the lock: the text job takes previewMutex
\* before it starts.
WTextLocked(w) ==
  /\ IsWorker(w)
  /\ workers[w].pc = "text"
  /\ previewMutex = Free
  /\ previewMutex' = << "worker", w >>
  /\ SetWorker(w, [ workers[w] EXCEPT !.pc = "commit",
                                      !.lines = Highlighted(workers[w].path) ])
  /\ UNCHANGED << workerFrame, imageReady, cachedBase64, cachedTextLines,
                  cachedPath, tempFile, cachedGen >>

\* Text job: binary test, bat, batcat, raw reader; the lines it ends with.
WText(w) ==
  /\ IsWorker(w)
  /\ workers[w].pc = "text"
  /\ SetWorker(w, [ workers[w] EXCEPT !.pc = "commit",
                                      !.lines = Highlighted(workers[w].path) ])
  /\ UNCHANGED << workerFrame, previewMutex, imageReady, cachedBase64,
                  cachedTextLines, cachedPath, tempFile, cachedGen >>

\* A gate that compares paths: if (path == requestedPath)
CommitGateByPath(w) == workers[w].path = requestedPath

\* No gate: whoever finishes writes the slot.
CommitGateOpen(w) == TRUE

\* The commit gate: if (reqId == requestID)
CommitGate(w) == w = requestID

\* { lock_guard; if (reqId == requestID) { cachedBase64 / cachedTextLines =
\*   ...; cachedPath = path; } -- the lock is taken and the slot written.
WCommit(w) ==
  /\ IsWorker(w)
  /\ workers[w].pc = "commit"
  /\ previewMutex = Free
  /\ previewMutex' = << "worker", w >>
  /\ IF CommitGate(w)
       THEN /\ IF workers[w].type = "IMAGE"
                 THEN /\ cachedBase64' = workers[w].b64
                      /\ UNCHANGED cachedTextLines
                 ELSE /\ cachedTextLines' = workers[w].lines
                      /\ UNCHANGED cachedBase64
            /\ cachedPath' = workers[w].path
            /\ cachedGen' = w
       ELSE UNCHANGED << cachedBase64, cachedTextLines, cachedPath, cachedGen >>
  /\ SetWorker(w, [ workers[w] EXCEPT !.pc = "locked" ])
  /\ UNCHANGED << workerFrame, imageReady, tempFile >>

\* } -- the lock_guard's scope ends; then if (reqId == requestID) ...
WUnlock(w) ==
  /\ IsWorker(w)
  /\ workers[w].pc = "locked"
  /\ previewMutex' = Free
  /\ SetWorker(w, [ workers[w] EXCEPT
                      !.pc = IF w = requestID THEN "flag" ELSE "done" ])
  /\ UNCHANGED << workerFrame, imageReady, cachedBase64, cachedTextLines,
                  cachedPath, tempFile, cachedGen >>

\* A worker that ends without raising the flag.
WSetReadyLost(w) ==
  /\ IsWorker(w)
  /\ workers[w].pc = "flag"
  /\ SetWorker(w, [ workers[w] EXCEPT !.pc = "done" ])
  /\ UNCHANGED << workerFrame, previewMutex, imageReady, cachedBase64,
                  cachedTextLines, cachedPath, tempFile, cachedGen >>

\* ... imageReady = true;
WSetReady(w) ==
  /\ IsWorker(w)
  /\ workers[w].pc = "flag"
  /\ imageReady' = TRUE
  /\ SetWorker(w, [ workers[w] EXCEPT !.pc = "done" ])
  /\ UNCHANGED << workerFrame, previewMutex, cachedBase64, cachedTextLines,
                  cachedPath, tempFile, cachedGen >>

\* The commit block and the flag of a worker whose FileManager has been
\* destroyed: it locks a destroyed mutex and assigns to destroyed strings;
\* beside going on as if the object were there (WCommit, WUnlock,
\* WSetReady), the process can die of it.
WTouchDestroyed(w) ==
  /\ IsWorker(w)
  /\ uiPc = "quit"
  /\ workers[w].pc \in { "commit", "locked", "flag" }
  /\ uiPc' = "crashed"
  /\ UNCHANGED << fileVars, pinVars, selectedIndex, statusMessage, needsRedraw,
                  keysLeft, previewVars, lastWasDirectRender, placements,
                  fromCache, obs >>

WorkerStep(w) ==
  \/ WRemoveTemp(w)
  \/ WTranscode(w)
  \/ WReadTemp(w)
  \/ WText(w)
  \/ WCommit(w)
  \/ WUnlock(w)
  \/ WSetReady(w)

----------------------------------------------------------------------------
(* Keys: the cursor *)

\* What a key handler did: the key, whether it reloaded the catalogs, the
\* selection and clipboard it started from, the paste's successCount, and
\* whether it indexed currentFiles out of range; clamped is set by the next
\* render pass when its clamp moves the cursor; ioError tells that a
\* catalog load of the handler met a filesystem error; aborted tells that
\* the handler returned on the answer to its prompt; slotGen is the reqId
\* of the worker that had last written the cache slot when the key came.
Obs(key, reloaded, successCount, fault) ==
  [ key |-> key, reloaded |-> reloaded, selBefore |-> multiSelection,
    clipBefore |-> clipboard, successCount |-> successCount, fault |-> fault,
    clamped |-> FALSE, ioError |-> FALSE, aborted |-> FALSE,
    slotGen |-> cachedGen ]

\* getch() returned a key: needsRedraw = true, statusMessage = "", and after
\* the handler the loop starts over.
KeyRead ==
  /\ uiPc = "getch"
  /\ keysLeft > 0
  /\ keysLeft' = keysLeft - 1
  /\ needsRedraw' = TRUE
  /\ uiPc' = "loop"

\* fs::status(p) fails with EACCES and throws: p is in a directory that
\* cannot be searched.  (ENOENT and ENOTDIR do not throw.)
StatThrows(p) == p # << >> /\ ParentPath(p) \in noSearch

\* A key whose handler lets an exception escape: run() and main() catch
\* nothing, std::terminate ends the process.
Terminate(key) ==
  /\ uiPc = "getch"
  /\ keysLeft > 0
  /\ keysLeft' = keysLeft - 1
  /\ needsRedraw' = TRUE
  /\ uiPc' = "terminated"
  /\ statusMessage' = ""
  /\ obs' = Obs(key, FALSE, 0, FALSE)

\* What no key handler touches.
keyFrame ==
  << xdev, noSearch, legacy, previewVars, fromCache, kitty, textJob >>

\* operator+ / operator<< on strings, over a list of them.
RECURSIVE Flatten(_)
Flatten(ss) ==
  IF ss = << >> THEN << >>
  ELSE IF Len(ss) = 1 THEN ss[1]
  ELSE LET half == Len(ss) \div 2
       IN Flatten(SubSeq(ss, 1, half)) \o Flatten(SubSeq(ss, half + 1, Len(ss)))

\* fs::path::string: every name behind a '/'.
PathString(p) ==
  IF p = << >> THEN << Slash >>
  ELSE Flatten([ i \in 1..Len(p) |-> << Slash >> \o NameBytes[p[i]] ])

\* The runs of bytes between the occurrences of sep (std::getline with '\n';
\* the elements of a path with '/').
Split(bytes, sep) ==
  LET seps == { i \in 1..Len(bytes) : bytes[i] = sep }
      at == [ k \in 0..(Cardinality(seps) + 1) |->
                IF k = 0 THEN 0
                ELSE IF k > Cardinality(seps) THEN Len(bytes) + 1
                ELSE CHOOSE i \in seps :
                       Cardinality({ j \in seps : j < i }) = k - 1 ]
  IN [ k \in 1..(Cardinality(seps) + 1) |->
         SubSeq(bytes, at[k - 1] + 1, at[k] - 1) ]

\* fs::path(line): the names between the '/'; a line without a leading '/'
\* is relative to the working directory of the process, which is outside
\* the filesystems of this module ("." heads such a path).
ParsePath(line) ==
  LET runs == SelectSeq(Split(line, Slash), LAMBDA r : r # << >>)
      names == [ i \in 1..Len(runs) |-> NameOf(runs[i]) ]
  IN IF line[1] = Slash THEN names ELSE << "." >> \o names

\* savePins: one path per line.
SavePins(pins) ==
  Flatten([ i \in 1..Len(pins) |-> PathString(pins[i]) \o << Newline >> ])

\* loadPins: the lines of the pin file that are not empty and exist.
LoadPins(text, f) ==
  LET lines == SelectSeq(Split(text, Newline), LAMBDA l : l # << >>)
      paths == [ i \in 1..Len(lines) |-> ParsePath(lines[i]) ]
  IN SelectSeq(paths, LAMBDA l : Exists(f, l))

\* The cursor after 'j' / KEY_DOWN.
CursorDown(idx, size) == IF size # 0 /\ idx < size - 1 THEN idx + 1 ELSE idx

\* The cursor after 'k' / KEY_UP.
CursorUp(idx) == IF idx > 0 THEN idx - 1 ELSE idx

\* case 'j': case KEY_DOWN (files pane)
KeyDown ==
  /\ KeyRead
  /\ ~focusPinned
  /\ selectedIndex' = CursorDown(selectedIndex, Len(currentFiles))
  /\ statusMessage' = ""
  /\ obs' = Obs("j", FALSE, 0, FALSE)
  /\ UNCHANGED << keyFrame, fs, currentPath, currentFiles, parentFiles,
                  multiSelection, clipboard, showHidden, pinVars,
                  lastWasDirectRender, placements >>

\* case 'k': case KEY_UP (files pane)
KeyUp ==
  /\ KeyRead
  /\ ~focusPinned
  /\ selectedIndex' = CursorUp(selectedIndex)
  /\ statusMessage' = ""
  /\ obs' = Obs("k", FALSE, 0, FALSE)
  /\ UNCHANGED << keyFrame, fs, currentPath, currentFiles, parentFiles,
                  multiSelection, clipboard, showHidden, pinVars,
                  lastWasDirectRender, placements >>

----------------------------------------------------------------------------
(* Keys: navigation, selection, clipboard *)

\* The handler indexes currentFiles[selectedIndex] past the end.
IndexFault == currentFiles # << >> /\ selectedIndex >= Len(currentFiles)

\* A handler that returns without touching the model.
Quiet(key, fault) ==
  /\ statusMessage' = ""
  /\ obs' = Obs(key, FALSE, 0, fault)
  /\ UNCHANGED << fs, currentPath, currentFiles, parentFiles, multiSelection,
                  clipboard, showHidden, pinVars, selectedIndex,
                  lastWasDirectRender, placements >>

\* A handler that empties the selection before it looks at the answer.
AbortedSelectionLost(key) ==
  /\ statusMessage' = ""
  /\ multiSelection' = {}
  /\ obs' = [ Obs(key, FALSE, 0, FALSE) EXCEPT !.aborted = TRUE ]
  /\ UNCHANGED << fs, currentPath, currentFiles, parentFiles, clipboard,
                  showHidden, pinVars, selectedIndex, lastWasDirectRender,
                  placements >>

\* The handler returns on the answer to its prompt: if (name.empty())
\* return; if (confirm != "y" && confirm != "Y") return;
Aborted(key) ==
  /\ statusMessage' = ""
  /\ obs' = [ Obs(key, FALSE, 0, FALSE) EXCEPT !.aborted = TRUE ]
  /\ UNCHANGED << fs, currentPath, currentFiles, parentFiles, multiSelection,
                  clipboard, showHidden, pinVars, selectedIndex,
                  lastWasDirectRender, placements >>

\* A reload that keeps the paths still listed in the selection's directory.
ReloadAllKeepsSelection(f, path, hidden) ==
  /\ currentFiles' = LoadDirectory(f, path, hidden)
  /\ parentFiles' = LoadParent(f, path, hidden)
  /\ multiSelection' = multiSelection

\* A reload without loadParent().
ReloadAllCurrentOnly(f, path, hidden) ==
  /\ currentFiles' = LoadDirectory(f, path, hidden)
  /\ parentFiles' = parentFiles
  /\ multiSelection' = LoadSelection(multiSelection)

\* reloadAll: loadDirectory(currentPath, currentFiles); loadParent()
ReloadAll(f, path, hidden) ==
  /\ currentFiles' = LoadDirectory(f, path, hidden)
  /\ parentFiles' = LoadParent(f, path, hidden)
  /\ multiSelection' = LoadSelection(multiSelection)

\* openFile ('l', KEY_RIGHT, Enter): enter the directory under the cursor,
\* or hand the file to the external opener.
KeyOpen ==
  /\ KeyRead
  /\ ~focusPinned
  /\ IF currentFiles = << >> \/ IndexFault
       THEN Quiet("l", IndexFault)
       ELSE /\ ClearDirectRender
            /\ statusMessage' = ""
            /\ IF Selected.is_directory
                 THEN /\ currentPath' = Selected.path
                      /\ selectedIndex' = 0
                      /\ ReloadAll(fs, Selected.path, showHidden)
                      /\ obs' = Obs("l", TRUE, 0, FALSE)
                 ELSE /\ obs' = Obs("l", FALSE, 0, FALSE)
                      /\ UNCHANGED << currentPath, selectedIndex, currentFiles,
                                      parentFiles, multiSelection >>
            /\ UNCHANGED << fs, clipboard, showHidden, pinVars >>
  /\ UNCHANGED keyFrame

\* The cursor goUp leaves: the first entry named like the directory left,
\* else 0.
CursorOnName(files, name) ==
  LET hits == { i \in 1..Len(files) : files[i].name = name }
  IN IF hits = {} THEN 0
     ELSE (CHOOSE i \in hits : \A j \in hits : i <= j) - 1

\* goUp ('h', KEY_LEFT, Backspace)
KeyBack ==
  /\ KeyRead
  /\ ~focusPinned
  /\ IF ~HasParent(currentPath)
       THEN Quiet("h", FALSE)
       ELSE /\ ClearDirectRender
            /\ currentPath' = ParentPath(currentPath)
            /\ ReloadAll(fs, ParentPath(currentPath), showHidden)
            /\ selectedIndex' =
                 CursorOnName(currentFiles', Filename(currentPath))
            /\ statusMessage' = ""
            /\ obs' = Obs("h", TRUE, 0, FALSE)
            /\ UNCHANGED << fs, clipboard, showHidden, pinVars >>
  /\ UNCHANGED keyFrame

\* case 'g'
KeyTop ==
  /\ KeyRead
  /\ ~focusPinned
  /\ selectedIndex' = 0
  /\ statusMessage' = ""
  /\ obs' = Obs("g", FALSE, 0, FALSE)
  /\ UNCHANGED << keyFrame, fs, currentPath, currentFiles, parentFiles,
                  multiSelection, clipboard, showHidden, pinVars,
                  lastWasDirectRender, placements >>

\* case 'G'
KeyBottom ==
  /\ KeyRead
  /\ ~focusPinned
  /\ selectedIndex' = IF currentFiles # << >> THEN Len(currentFiles) - 1
                      ELSE selectedIndex
  /\ statusMessage' = ""
  /\ obs' = Obs("G", FALSE, 0, FALSE)
  /\ UNCHANGED << keyFrame, fs, currentPath, currentFiles, parentFiles,
                  multiSelection, clipboard, showHidden, pinVars,
                  lastWasDirectRender, placements >>

\* A toggle that only inserts.
ToggledInsertOnly(sel, p) == sel \cup { p }

\* if (multiSelection.count(p)) multiSelection.erase(p); else
\* multiSelection.insert(p);
Toggled(sel, p) == IF p \in sel THEN sel \ { p } ELSE sel \cup { p }

\* toggleSelection (' ', 'v')
KeyToggle ==
  /\ KeyRead
  /\ ~focusPinned
  /\ IF currentFiles = << >> \/ IndexFault
       THEN Quiet("space", IndexFault)
       ELSE /\ multiSelection' = Toggled(multiSelection, Selected.path)
            /\ selectedIndex' = IF selectedIndex < Len(currentFiles) - 1
                                  THEN selectedIndex + 1 ELSE selectedIndex
            /\ statusMessage' = ""
            /\ obs' = Obs("space", FALSE, 0, FALSE)
            /\ UNCHANGED << fs, currentPath, currentFiles, parentFiles,
                            clipboard, showHidden, pinVars,
                            lastWasDirectRender, placements >>
  /\ UNCHANGED keyFrame

\* selectAll ('a')
KeySelectAll ==
  /\ KeyRead
  /\ ~focusPinned
  /\ multiSelection' =
       multiSelection \cup { currentFiles[i].path : i \in 1..Len(currentFiles) }
  /\ statusMessage' = IF legacy THEN "Selected all files" ELSE "Selected all"
  /\ obs' = Obs("a", FALSE, 0, FALSE)
  /\ UNCHANGED << keyFrame, fs, currentPath, currentFiles, parentFiles,
                  clipboard, showHidden, pinVars, selectedIndex,
                  lastWasDirectRender, placements >>

\* clearSelection (Esc)
KeyEscape ==
  /\ KeyRead
  /\ ~focusPinned
  /\ multiSelection' = {}
  /\ statusMessage' = "Cleared selection"
  /\ obs' = Obs("esc", FALSE, 0, FALSE)
  /\ UNCHANGED << keyFrame, fs, currentPath, currentFiles, parentFiles,
                  clipboard, showHidden, pinVars, selectedIndex,
                  lastWasDirectRender, placements >>

\* The paths copy, cut, zip and delete work on: the selection in the order
\* of std::set<fs::path>, else the entry under the cursor.
Targets ==
  IF multiSelection = {} THEN << Selected.path >>
  ELSE SortByName(multiSelection)

\* A snapshot without clipboard.paths.clear().
YankedAppending(clip, targets, cut) ==
  [ paths |-> clip.paths \o targets, isCut |-> cut ]

\* clipboard.paths.clear(); the push_back of every target; clipboard.isCut
Yanked(clip, targets, cut) == [ paths |-> targets, isCut |-> cut ]

\* handleCopy ('y') and handleCut ('x')
Yank(key, cut) ==
  /\ KeyRead
  /\ ~focusPinned
  /\ IF currentFiles = << >> \/ (multiSelection = {} /\ IndexFault)
       THEN Quiet(key, multiSelection = {} /\ IndexFault)
       ELSE /\ clipboard' = Yanked(clipboard, Targets, cut)
            /\ multiSelection' = {}
            /\ statusMessage' =
                 IF legacy
                   THEN (IF cut THEN "Cut " ELSE "Yanked ")
                          \o ToString(Len(Targets)) \o " items"
                   ELSE (IF cut THEN "Cut items" ELSE "Yanked items")
            /\ obs' = Obs(key, FALSE, 0, FALSE)
            /\ UNCHANGED << fs, currentPath, currentFiles, parentFiles,
                            showHidden, pinVars, selectedIndex,
                            lastWasDirectRender, placements >>
  /\ UNCHANGED keyFrame

KeyCopy == Yank("y", FALSE)

KeyCut == Yank("x", TRUE)

\* A loop body without the test for an existing destination.
PasteItemNoSkip(f, src, cut, cwd, x, leg) ==
  LET dest == Join(cwd, Filename(src))
  IN IF cut
       THEN CHOOSE out \in
              { IF r.ok \/ leg THEN r
                ELSE CHOOSE moved \in
                       { IF c.ok THEN Ok(RemoveAll(c.f, src)) ELSE c :
                           c \in { Copy(f, src, dest) } } : TRUE :
                  r \in { Rename(f, src, dest, x) } } : TRUE
       ELSE Copy(f, src, dest)

\* One turn of handlePaste's loop for the clipboard path src: the
\* filesystem it leaves, whether successCount was incremented (ok), and the
\* error caught; r is the outcome of fs::rename and c that of fs::copy.
PasteItem(f, src, cut, cwd, x, leg) ==
  LET dest == Join(cwd, Filename(src))
  IN IF Exists(f, dest) /\ ~cut /\ src # dest
       THEN Fail("", f)
     ELSE IF cut
       THEN CHOOSE out \in
              { IF r.ok \/ leg THEN r
                ELSE CHOOSE moved \in
                       { IF c.ok THEN Ok(RemoveAll(c.f, src)) ELSE c :
                           c \in { Copy(f, src, dest) } } : TRUE :
                  r \in { Rename(f, src, dest, x) } } : TRUE
     ELSE Copy(f, src, dest)

\* A loop that the first item to throw ends.
RECURSIVE PasteAllAborting(_, _, _, _, _, _)
PasteAllAborting(f, paths, cut, cwd, x, leg) ==
  IF paths = << >> THEN [ f |-> f, count |-> 0, err |-> "" ]
  ELSE CHOOSE out \in UNION
         { IF ~one.ok /\ one.err # ""
             THEN { [ f |-> one.f, count |-> 0, err |-> one.err ] }
             ELSE { [ f |-> rest.f,
                      count |-> rest.count + (IF one.ok THEN 1 ELSE 0),
                      err |-> rest.err ] :
                      rest \in { PasteAllAborting(one.f, Tail(paths), cut, cwd,
                                                  x, leg) } } :
             one \in { PasteItem(f, Head(paths), cut, cwd, x, leg) } } : TRUE

\* handlePaste's loop over clipboard.paths: the filesystem it leaves,
\* successCount, and the last error message; one is the outcome of the
\* first path and rest that of the paths after it.
RECURSIVE PasteAll(_, _, _, _, _, _)
PasteAll(f, paths, cut, cwd, x, leg) ==
  IF paths = << >> THEN [ f |-> f, count |-> 0, err |-> "" ]
  ELSE CHOOSE out \in UNION
         { { [ f |-> rest.f,
               count |-> rest.count + (IF one.ok THEN 1 ELSE 0),
               err |-> IF rest.err # "" THEN rest.err ELSE one.err ] :
               rest \in { PasteAll(one.f, Tail(paths), cut, cwd, x, leg) } } :
             one \in { PasteItem(f, Head(paths), cut, cwd, x, leg) } } : TRUE

\* A paste that empties a cut clipboard whatever successCount is.
ClipboardAfterAnyCutPaste(clip, successCount) ==
  IF clip.isCut THEN [ paths |-> << >>, isCut |-> clip.isCut ] ELSE clip

\* if (clipboard.isCut && successCount > 0) clipboard.paths.clear();
ClipboardAfterPaste(clip, successCount) ==
  IF clip.isCut /\ successCount > 0
    THEN [ paths |-> << >>, isCut |-> clip.isCut ]
    ELSE clip

\* The status line handlePaste ends with.
PasteStatus(clip, r, leg) ==
  IF ~leg THEN (IF clip.isCut THEN "Moved items" ELSE "Pasted items")
  ELSE IF r.err # "" THEN "Error: " \o r.err
  ELSE IF clip.isCut THEN "Moved "
  ELSE "Pasted " \o ToString(r.count) \o " items"

\* handlePaste ('p')
KeyPaste ==
  /\ ~focusPinned
  /\ IF clipboard.paths = << >>
       THEN /\ KeyRead
            /\ statusMessage' = "Clipboard empty"
            /\ obs' = Obs("p", FALSE, 0, FALSE)
            /\ UNCHANGED << fs, currentFiles, parentFiles, multiSelection,
                            clipboard >>
     ELSE IF StatThrows(Join(currentPath, Filename(clipboard.paths[1])))
       THEN /\ Terminate("p")
            /\ UNCHANGED << fs, currentFiles, parentFiles, multiSelection,
                            clipboard >>
       ELSE \E r \in { PasteAll(fs, clipboard.paths, clipboard.isCut,
                                currentPath, xdev, legacy) } :
               /\ KeyRead
               /\ fs' = r.f
               /\ clipboard' = ClipboardAfterPaste(clipboard, r.count)
               /\ statusMessage' = PasteStatus(clipboard, r, legacy)
               /\ ReloadAll(fs', currentPath, showHidden)
               /\ obs' = Obs("p", TRUE, r.count, FALSE)
  /\ UNCHANGED << keyFrame, currentPath, showHidden, pinVars, selectedIndex,
                  lastWasDirectRender, placements >>

----------------------------------------------------------------------------
(* Keys: delete, rename, create, zip, hidden files *)

\* What the user types at a name prompt.
PromptNames == { "", "a", "n" }

\* handleDelete ('d', KEY_DC)
KeyDelete ==
  /\ KeyRead
  /\ ~legacy
  /\ ~focusPinned
  /\ IF currentFiles = << >> \/ (multiSelection = {} /\ IndexFault)
       THEN Quiet("d", multiSelection = {} /\ IndexFault)
       ELSE \E confirm \in { "y", "n" } :
              IF confirm # "y"
                THEN Aborted("d")
                ELSE LET targets == Targets
                         left == Restrict(fs, DOMAIN fs \
                                   UNION { Subtree(fs, targets[i]) :
                                             i \in 1..Len(targets) })
                     IN /\ fs' = left
                        /\ statusMessage' = "Deleted items"
                        /\ ReloadAll(fs', currentPath, showHidden)
                        /\ obs' = Obs("d", TRUE, 0, FALSE)
                        /\ UNCHANGED << currentPath, clipboard, showHidden,
                                        pinVars, selectedIndex,
                                        lastWasDirectRender, placements >>
  /\ UNCHANGED keyFrame

\* handleRename ('r')
KeyRename ==
  /\ KeyRead
  /\ ~focusPinned
  /\ IF currentFiles = << >> \/ IndexFault
       THEN Quiet("r", IndexFault)
       ELSE \E newName \in PromptNames :
              IF newName = ""
                THEN Aborted("r")
                ELSE LET r == Rename(fs, Selected.path,
                                     Join(currentPath, newName), xdev)
                     IN /\ fs' = r.f
                        /\ IF r.ok
                             THEN /\ statusMessage' =
                                       IF legacy THEN "Renamed to " \o newName
                                       ELSE "Renamed"
                                  /\ ReloadAll(fs', currentPath, showHidden)
                                  /\ obs' = Obs("r", TRUE, 0, FALSE)
                             ELSE /\ statusMessage' =
                                       IF legacy
                                         THEN "Rename Failed: " \o r.err
                                         ELSE "Rename Failed"
                                  /\ obs' = Obs("r", FALSE, 0, FALSE)
                                  /\ UNCHANGED << currentFiles, parentFiles,
                                                  multiSelection >>
                        /\ UNCHANGED << currentPath, clipboard, showHidden,
                                        pinVars, selectedIndex,
                                        lastWasDirectRender, placements >>
  /\ UNCHANGED keyFrame

\* handleNewFile ('n'): file_manager.cpp refuses a name that exists.
KeyNewFile ==
  /\ KeyRead
  /\ ~focusPinned
  /\ \E name \in PromptNames :
       IF name = ""
         THEN Aborted("n")
       ELSE IF legacy /\ Exists(fs, Join(currentPath, name))
         THEN /\ statusMessage' = "File exists"
              /\ obs' = Obs("n", FALSE, 0, FALSE)
              /\ UNCHANGED << fs, currentPath, currentFiles, parentFiles,
                              multiSelection, clipboard, showHidden, pinVars,
                              selectedIndex, lastWasDirectRender, placements >>
       ELSE LET made == CreateFile(fs, Join(currentPath, name))
            IN /\ fs' = made
               /\ statusMessage' = IF legacy THEN "Created file: " \o name
                                   ELSE "Created file"
               /\ ReloadAll(fs', currentPath, showHidden)
               /\ obs' = Obs("n", TRUE, 0, FALSE)
               /\ UNCHANGED << currentPath, clipboard, showHidden, pinVars,
                               selectedIndex, lastWasDirectRender, placements >>
  /\ UNCHANGED keyFrame

\* handleNewFolder ('N'): part_000 reloads whatever create_directory
\* returns and stays silent when it throws; file_manager.cpp reloads only
\* when the directory was made.
KeyNewFolder ==
  /\ KeyRead
  /\ ~focusPinned
  /\ \E name \in PromptNames \cup { "d" } :
       IF name = ""
         THEN Aborted("N")
         ELSE LET r == CreateDirectory(fs, Join(currentPath, name))
                  reload == r.ok /\ (r.made \/ ~legacy)
              IN /\ fs' = r.f
                 /\ statusMessage' =
                      IF ~r.ok THEN (IF legacy THEN "Error: " \o r.err ELSE "")
                      ELSE IF ~legacy THEN "Created folder"
                      ELSE IF r.made THEN "Created folder: " \o name
                      ELSE "Failed to create folder"
                 /\ obs' = Obs("N", reload, 0, FALSE)
                 /\ IF reload
                      THEN ReloadAll(fs', currentPath, showHidden)
                      ELSE UNCHANGED << currentFiles, parentFiles,
                                        multiSelection >>
                 /\ UNCHANGED << currentPath, clipboard, showHidden, pinVars,
                                 selectedIndex, lastWasDirectRender, placements >>
  /\ UNCHANGED keyFrame

\* The archive zip(1) leaves in cwd when it exits 0.
Zipped(f, cwd, name) ==
  [ q \in DOMAIN f \cup { Join(cwd, name) } |->
      IF q = Join(cwd, name) THEN "zip" ELSE f[q] ]

\* handleZip ('z'): part_000 ignores the exit status; file_manager.cpp
\* clears the selection and reloads only on exit status 0.
KeyZip ==
  /\ KeyRead
  /\ ~focusPinned
  /\ IF currentFiles = << >> \/ (multiSelection = {} /\ IndexFault)
       THEN Quiet("z", multiSelection = {} /\ IndexFault)
       ELSE \E name \in { "", "z" }, res \in { 0, 12 } :
              IF name = ""
                THEN Aborted("z")
                ELSE LET after == IF res = 0
                                    THEN Zipped(fs, currentPath, "z.zip")
                                    ELSE fs
                         reload == res = 0 \/ ~legacy
                     IN /\ fs' = after
                        /\ statusMessage' =
                             IF ~legacy THEN "Zipped"
                             ELSE IF res = 0
                               THEN "Zipped " \o ToString(Len(Targets))
                                      \o " items to " \o name \o ".zip"
                             ELSE "Zip failed"
                        /\ obs' = Obs("z", reload, 0, FALSE)
                        /\ IF reload
                             THEN ReloadAll(fs', currentPath, showHidden)
                             ELSE UNCHANGED << currentFiles, parentFiles,
                                               multiSelection >>
                        /\ UNCHANGED << currentPath, clipboard, showHidden,
                                        pinVars, selectedIndex,
                                        lastWasDirectRender, placements >>
  /\ UNCHANGED keyFrame

\* toggleHidden ('.')
KeyHidden ==
  /\ KeyRead
  /\ ~focusPinned
  /\ showHidden' = ~showHidden
  /\ ReloadAll(fs, currentPath, ~showHidden)
  /\ statusMessage' =
       IF legacy
         THEN (IF ~showHidden THEN "Showing hidden files"
               ELSE "Hidden files masked")
         ELSE (IF ~showHidden THEN "Showing hidden" ELSE "Hidden masked")
  /\ obs' = Obs(".", TRUE, 0, FALSE)
  /\ UNCHANGED << keyFrame, fs, currentPath, clipboard, pinVars, selectedIndex,
                  lastWasDirectRender, placements >>

\* toggleHidden when the load of the current catalog meets a filesystem
\* error (the catch of loadDirectory swallows it).
KeyHiddenIoError ==
  /\ KeyRead
  /\ ~focusPinned
  /\ showHidden' = ~showHidden
  /\ \E pass \in 0..2, seen \in Yielded(Children(fs, currentPath)) :
       currentFiles' =
         LoadDirectoryThrowing(fs, currentPath, ~showHidden, pass, seen)
  /\ parentFiles' = LoadParent(fs, currentPath, ~showHidden)
  /\ multiSelection' = LoadSelection(multiSelection)
  /\ statusMessage' =
       IF legacy
         THEN (IF ~showHidden THEN "Showing hidden files"
               ELSE "Hidden files masked")
         ELSE (IF ~showHidden THEN "Showing hidden" ELSE "Hidden masked")
  /\ obs' = [ Obs(".", TRUE, 0, FALSE) EXCEPT !.ioError = TRUE ]
  /\ UNCHANGED << keyFrame, fs, currentPath, clipboard, pinVars, selectedIndex,
                  lastWasDirectRender, placements >>

----------------------------------------------------------------------------
(* Keys: pins, pane focus, resize, quit (pins and Tab: part_000 only) *)

\* Every catalog, selection and clipboard variable.
catalogVars ==
  << fs, currentPath, currentFiles, parentFiles, multiSelection, clipboard,
     showHidden >>

\* handlePin ('P')
KeyPin ==
  /\ KeyRead
  /\ ~legacy
  /\ ~focusPinned
  /\ IF \E i \in 1..Len(pinnedPaths) : pinnedPaths[i] = currentPath
       THEN /\ statusMessage' = "Already pinned"
            /\ UNCHANGED << pinnedPaths, pinFile >>
       ELSE /\ pinnedPaths' = Append(pinnedPaths, currentPath)
            /\ pinFile' = SavePins(Append(pinnedPaths, currentPath))
            /\ statusMessage' = "Pinned"
  /\ obs' = Obs("P", FALSE, 0, FALSE)
  /\ UNCHANGED << keyFrame, catalogVars, pinnedIndex, focusPinned,
                  selectedIndex, lastWasDirectRender, placements >>

\* A Tab that always hands the keys to the pinned pane.
KeyTabToPins ==
  /\ KeyRead
  /\ ~legacy
  /\ focusPinned' = TRUE
  /\ statusMessage' = ""
  /\ obs' = Obs("tab", FALSE, 0, FALSE)
  /\ UNCHANGED << keyFrame, catalogVars, pinnedPaths, pinnedIndex, pinFile,
                  selectedIndex, lastWasDirectRender, placements >>

\* case '\t': focusPinned = !focusPinned
KeyTab ==
  /\ KeyRead
  /\ ~legacy
  /\ focusPinned' = ~focusPinned
  /\ statusMessage' = ""
  /\ obs' = Obs("tab", FALSE, 0, FALSE)
  /\ UNCHANGED << keyFrame, catalogVars, pinnedPaths, pinnedIndex, pinFile,
                  selectedIndex, lastWasDirectRender, placements >>

\* 'j' / KEY_DOWN in the pinned pane
KeyPinDown ==
  /\ KeyRead
  /\ focusPinned
  /\ pinnedIndex' = CursorDown(pinnedIndex, Len(pinnedPaths))
  /\ statusMessage' = ""
  /\ obs' = Obs("j", FALSE, 0, FALSE)
  /\ UNCHANGED << keyFrame, catalogVars, pinnedPaths, focusPinned, pinFile,
                  selectedIndex, lastWasDirectRender, placements >>

\* 'k' / KEY_UP in the pinned pane
KeyPinUp ==
  /\ KeyRead
  /\ focusPinned
  /\ pinnedIndex' = CursorUp(pinnedIndex)
  /\ statusMessage' = ""
  /\ obs' = Obs("k", FALSE, 0, FALSE)
  /\ UNCHANGED << keyFrame, catalogVars, pinnedPaths, focusPinned, pinFile,
                  selectedIndex, lastWasDirectRender, placements >>

\* jumpToPin (Enter in the pinned pane): the cursor is left where it was.
KeyJump ==
  /\ KeyRead
  /\ focusPinned
  /\ IF pinnedPaths # << >> /\ pinnedIndex < Len(pinnedPaths)
       THEN /\ currentPath' = pinnedPaths[pinnedIndex + 1]
            /\ ReloadAll(fs, pinnedPaths[pinnedIndex + 1], showHidden)
            /\ focusPinned' = FALSE
            /\ statusMessage' = "Jumped to pin"
            /\ obs' = Obs("enter", TRUE, 0, FALSE)
       ELSE /\ statusMessage' = ""
            /\ obs' = Obs("enter", FALSE, 0, FALSE)
            /\ UNCHANGED << currentPath, currentFiles, parentFiles,
                            multiSelection, focusPinned >>
  /\ UNCHANGED << keyFrame, fs, clipboard, showHidden, pinnedPaths,
                  pinnedIndex, pinFile, selectedIndex, lastWasDirectRender, placements >>

\* The pin list without its last entry.
ErasePinLast(pins, i) == SubSeq(pins, 1, Len(pins) - 1)

\* The pin list without its entry at the 0-based index i.
ErasePin(pins, i) == SubSeq(pins, 1, i) \o SubSeq(pins, i + 2, Len(pins))

\* A 'd' in the pinned pane that is routed to the delete of the files pane
\* and removes the pinned directory itself.
KeyUnpinDeletesDirectory ==
  /\ KeyRead
  /\ focusPinned
  /\ IF pinnedPaths # << >> /\ pinnedIndex < Len(pinnedPaths)
       THEN /\ fs' = RemoveAll(fs, pinnedPaths[pinnedIndex + 1])
            /\ statusMessage' = "Deleted items"
       ELSE /\ statusMessage' = ""
            /\ UNCHANGED fs
  /\ obs' = Obs("d", FALSE, 0, FALSE)
  /\ UNCHANGED << keyFrame, currentPath, currentFiles, parentFiles,
                  multiSelection, clipboard, showHidden, pinVars,
                  selectedIndex, lastWasDirectRender, placements >>

\* handleUnpin ('d' in the pinned pane)
KeyUnpin ==
  /\ KeyRead
  /\ focusPinned
  /\ IF pinnedPaths # << >> /\ pinnedIndex < Len(pinnedPaths)
       THEN LET left == ErasePin(pinnedPaths, pinnedIndex)
            IN /\ pinnedPaths' = left
               /\ pinFile' = SavePins(left)
               /\ pinnedIndex' = IF pinnedIndex >= Len(left) /\ pinnedIndex > 0
                                   THEN pinnedIndex - 1 ELSE pinnedIndex
               /\ statusMessage' = "Unpinned"
       ELSE /\ statusMessage' = ""
            /\ UNCHANGED << pinnedPaths, pinFile, pinnedIndex >>
  /\ obs' = Obs("d", FALSE, 0, FALSE)
  /\ UNCHANGED << keyFrame, catalogVars, focusPinned, selectedIndex,
                  lastWasDirectRender, placements >>

\* case KEY_RESIZE: clearDirectRender(); updateLayout();
KeyResize ==
  /\ KeyRead
  /\ ClearDirectRender
  /\ statusMessage' = ""
  /\ obs' = Obs("resize", FALSE, 0, FALSE)
  /\ UNCHANGED << keyFrame, catalogVars, pinVars, selectedIndex >>

\* A key no case of the switch names.
KeyOther ==
  /\ KeyRead
  /\ statusMessage' = ""
  /\ obs' = Obs("other", FALSE, 0, FALSE)
  /\ UNCHANGED << keyFrame, catalogVars, pinVars, selectedIndex,
                  lastWasDirectRender, placements >>

\* case 'q': run() returns and the destructor clears the screen.
KeyQuit ==
  /\ uiPc = "getch"
  /\ keysLeft > 0
  /\ keysLeft' = keysLeft - 1
  /\ uiPc' = "quit"
  /\ needsRedraw' = TRUE
  /\ statusMessage' = ""
  /\ ClearDirectRender
  /\ obs' = Obs("q", FALSE, 0, FALSE)
  /\ UNCHANGED << keyFrame, catalogVars, pinVars, selectedIndex >>

\* main: fm.run() has returned and fm is destroyed; return 0 ends the
\* process and with it every detached thread.
ProcessExit ==
  /\ uiPc = "quit"
  /\ uiPc' = "exited"
  /\ UNCHANGED << fileVars, pinVars, selectedIndex, statusMessage, needsRedraw,
                  keysLeft, previewVars, lastWasDirectRender, placements,
                  fromCache, obs >>

----------------------------------------------------------------------------
(* sendKittyGraphics *)

\* const size_t chunk_size = 4096;
chunk_size == 4096

\* std::min(chunk_size, total - offset)
ChunkLen(offset, total) ==
  IF chunk_size < total - offset THEN chunk_size ELSE total - offset

\* A last-chunk test that asks for more than the payload holds.
IsLastBeyond(offset, chunkLen, total) == offset + chunkLen > total

\* bool isLast = (offset + chunkLen >= total);
IsLast(offset, chunkLen, total) == offset + chunkLen >= total

\* Control keys with the placement metadata on every chunk.
ChunkKeysAllPlaced(offset, isLast) ==
  << "a=T", "f=100", "t=d", "q=2", IF isLast THEN "m=0" ELSE "m=1" >>

\* The control keys of a chunk, between "\033_G" and ';'.
ChunkKeys(offset, isLast) ==
  (IF offset = 0 THEN << "a=T", "f=100", "t=d", "q=2" >> ELSE << >>)
    \o << IF isLast THEN "m=0" ELSE "m=1" >>

\* Everything but the locals of sendKittyGraphics.
kittyFrame ==
  << fs, xdev, noSearch, legacy, currentPath, currentFiles, parentFiles, multiSelection,
     pinnedPaths, pinnedIndex, focusPinned, selectedIndex, clipboard,
     statusMessage, showHidden, pinFile, needsRedraw, uiPc, keysLeft,
     previewVars, lastWasDirectRender, placements, fromCache, obs, textJob >>

\* One turn of while (offset < total): a framed chunk goes to std::cout.
KittyChunk ==
  /\ kitty.pc = "loop"
  /\ kitty.offset < Len(kitty.b64Data)
  /\ LET total == Len(kitty.b64Data)
         chunkLen == ChunkLen(kitty.offset, total)
         isLast == IsLast(kitty.offset, chunkLen, total)
     IN kitty' =
          [ kitty EXCEPT
              !.out = Append(@, [ keys |-> ChunkKeys(kitty.offset, isLast),
                                  payload |-> SubSeq(kitty.b64Data,
                                                     kitty.offset + 1,
                                                     kitty.offset + chunkLen) ]),
              !.offset = @ + chunkLen ]
  /\ UNCHANGED kittyFrame

\* The loop ends: std::cout << std::flush.
KittyFlush ==
  /\ kitty.pc = "loop"
  /\ kitty.offset >= Len(kitty.b64Data)
  /\ kitty' = [ kitty EXCEPT !.pc = "done" ]
  /\ UNCHANGED kittyFrame

----------------------------------------------------------------------------
(* The body of a text job (startAsyncPreview, type TEXT) *)

\* '\0', '\t', ' '
NUL == 0

Tab == 9

Space == 32

\* char buffer[512] of is_binary_file
BinaryProbe == 512

\* char buffer[1024] of the fgets loops
FgetsSize == 1024

\* "\033[1;31m[Binary File]\033[0m"
BinaryMarker ==
  << 27, 91, 49, 59, 51, 49, 109, 91, 66, 105, 110, 97, 114, 121, 32, 70,
     105, 108, 101, 93, 27, 91, 48, 109 >>

\* is_binary_file: a null byte among the first 512 bytes.
is_binary_file(content) ==
  \E i \in 1..Len(content) : i <= BinaryProbe /\ content[i] = NUL

\* while (fgets(buffer, sizeof(buffer), pipe)) lines.push_back(line): every
\* call yields the bytes up to and with the next newline, at most 1023 of
\* them, and a trailing newline is popped.
RECURSIVE FgetsLines(_)
FgetsLines(bytes) ==
  IF bytes = << >> THEN << >>
  ELSE LET limit == IF Len(bytes) < FgetsSize - 1 THEN Len(bytes)
                    ELSE FgetsSize - 1
           nls == { i \in 1..limit : bytes[i] = Newline }
           n == IF nls = {} THEN limit
                ELSE CHOOSE i \in nls : \A j \in nls : i <= j
       IN << IF bytes[n] = Newline THEN SubSeq(bytes, 1, n - 1)
             ELSE SubSeq(bytes, 1, n) >>
            \o FgetsLines(SubSeq(bytes, n + 1, Len(bytes)))

\* The lines std::getline yields: the runs between the newlines, without an
\* empty run after the last newline.
GetLines(content) ==
  IF content = << >> THEN << >>
  ELSE LET runs == Split(content, Newline)
       IN IF content[Len(content)] = Newline
            THEN SubSeq(runs, 1, Len(runs) - 1) ELSE runs

\* for (char c : lineStr) clean += (c == '\t') ? "    " : c
ExpandTabs(line) ==
  Flatten([ i \in 1..Len(line) |->
              IF line[i] = Tab THEN << Space, Space, Space, Space >>
              ELSE << line[i] >> ])

\* if (clean.length() > (size_t)previewWidth) clean = clean.substr(0,
\* previewWidth): the cast turns a negative previewWidth into a value
\* above every length, and nothing is cut.
Clip(line, previewWidth) ==
  IF previewWidth >= 0 /\ Len(line) > previewWidth
    THEN SubSeq(line, 1, previewWidth) ELSE line

\* The raw reader: while (std::getline(f, lineStr) && count < previewHeight)
RawLines(content, previewHeight, previewWidth) ==
  LET all == GetLines(content)
      n == IF previewHeight <= 0 THEN 0
           ELSE IF Len(all) < previewHeight THEN Len(all) ELSE previewHeight
  IN [ i \in 1..n |-> Clip(ExpandTabs(all[i]), previewWidth) ]

\* updateLayout and drawPreview: the preview window has the columns the
\* other two panes leave; maxW = getmaxx(winPreview) - 4.
PreviewWidth(cols) == (cols - (cols * 2) \div 10 - (cols * 4) \div 10) - 4

\* maxH = getmaxy(winPreview) - 2 of a window of height - 1 lines; the job
\* gets maxH - 8.
PreviewHeight(rows) == ((rows - 1) - 2) - 8

\* No text job body running.
TextIdle ==
  [ content |-> << >>, batOut |-> << >>, batcatOut |-> << >>,
    previewHeight |-> 0, previewWidth |-> 0, lines |-> << >>,
    gotOutput |-> FALSE, ran |-> {}, pc |-> "idle" ]

\* Everything but the locals of the text job.
textFrame ==
  << fs, xdev, noSearch, legacy, currentPath, currentFiles, parentFiles,
     multiSelection, pinnedPaths, pinnedIndex, focusPinned, selectedIndex,
     clipboard, statusMessage, showHidden, pinFile, needsRedraw, uiPc,
     keysLeft, previewVars, lastWasDirectRender, placements, fromCache, obs,
     kitty >>

\* if (is_binary_file(path)) lines.push_back(marker); else ...
TextBinaryCheck ==
  /\ textJob.pc = "binary"
  /\ textJob' =
       IF is_binary_file(textJob.content)
         THEN [ textJob EXCEPT !.lines = << BinaryMarker >>, !.pc = "commit" ]
         ELSE [ textJob EXCEPT !.pc = "bat" ]
  /\ UNCHANGED textFrame

\* 1. popen("bat ..."): the lines read from the pipe (none when popen
\* fails or bat is not installed).
TextBat ==
  /\ textJob.pc = "bat"
  /\ \E got \in { FgetsLines(textJob.batOut) } :
       textJob' = [ textJob EXCEPT !.lines = got, !.gotOutput = got # << >>,
                                   !.ran = @ \cup { "bat" },
                                   !.pc = IF got # << >> THEN "commit"
                                          ELSE "batcat" ]
  /\ UNCHANGED textFrame

\* 2. if (!gotOutput) popen("batcat ...")
TextBatcat ==
  /\ textJob.pc = "batcat"
  /\ \E got \in { FgetsLines(textJob.batcatOut) } :
       textJob' = [ textJob EXCEPT !.lines = got, !.gotOutput = got # << >>,
                                   !.ran = @ \cup { "batcat" },
                                   !.pc = IF got # << >> THEN "commit"
                                          ELSE "raw" ]
  /\ UNCHANGED textFrame

\* 3. if (!gotOutput) the raw reader
TextRaw ==
  /\ textJob.pc = "raw"
  /\ textJob' = [ textJob EXCEPT
                    !.lines = RawLines(textJob.content, textJob.previewHeight,
                                       textJob.previewWidth),
                    !.ran = @ \cup { "raw" },
                    !.pc = "commit" ]
  /\ UNCHANGED textFrame

----------------------------------------------------------------------------
(* Initial states *)

\* The state the constructor leaves: catalogs loaded for the working
\* directory, cursor 0, nothing selected, clipboard empty, no preview yet.
InitState(f, cwd, pinText, keys) ==
  /\ fs = f
  /\ currentPath = cwd
  /\ showHidden = FALSE
  /\ currentFiles = LoadDirectory(f, cwd, FALSE)
  /\ parentFiles = LoadParent(f, cwd, FALSE)
  /\ multiSelection = {}
  /\ pinFile = pinText
  /\ pinnedPaths = LoadPins(pinText, f)
  /\ pinnedIndex = 0
  /\ focusPinned = FALSE
  /\ selectedIndex = 0
  /\ clipboard = [ paths |-> << >>, isCut |-> FALSE ]
  /\ statusMessage = ""
  /\ needsRedraw = TRUE
  /\ uiPc = "loop"
  /\ keysLeft = keys
  /\ previewMutex = Free
  /\ imageReady = FALSE
  /\ cachedBase64 = EMPTY
  /\ cachedTextLines = EMPTY
  /\ cachedPath = EMPTY
  /\ requestedPath = EMPTY
  /\ requestID = 0
  /\ lastWasDirectRender = FALSE
  /\ placements = 0
  /\ workers = << >>
  /\ tempFile = EMPTY
  /\ match = FALSE
  /\ fromCache = NotRead
  /\ cachedGen = 0
  /\ obs = [ key |-> "", reloaded |-> FALSE, selBefore |-> {},
             clipBefore |-> [ paths |-> << >>, isCut |-> FALSE ],
             successCount |-> 0, fault |-> FALSE, clamped |-> FALSE,
             ioError |-> FALSE, aborted |-> FALSE, slotGen |-> 0 ]

\* sendKittyGraphics not running.
KittyIdle == [ b64Data |-> << >>, offset |-> 0, out |-> << >>, pc |-> "idle" ]

InitAt(f, cwd, pinText, keys) ==
  /\ InitState(f, cwd, pinText, keys)
  /\ kitty = KittyIdle
  /\ textJob = TextIdle

\* A directory of two images and one source file.
MediaFs ==
  << >> :> "dir" @@ << "a.png" >> :> "img-a" @@ << "b.png" >> :> "img-b"
  @@ << "c.txt" >> :> "text-c"

InitPreview ==
  /\ xdev = FALSE
  /\ noSearch = {}
  /\ legacy = FALSE
  /\ InitAt(MediaFs, << >>, << >>, MaxKeys)

\* The preview pipeline: the render thread, the cursor keys, the workers.
NextPreview ==
  \/ Render
  \/ PathCheck
  \/ AfterCheck
  \/ DrawFromCache
  \/ EndPaint
  \/ PollReady
  \/ PollClear
  \/ KeyDown
  \/ KeyUp
  \/ \E w \in 1..(MaxKeys + 1) : WorkerStep(w)

SpecPreview == InitPreview /\ [][NextPreview]_vars

\* The scheduler runs every thread that can take a step: the render loop
\* and each detached worker (whose external commands end).
UiStep ==
  \/ Render
  \/ PathCheck
  \/ AfterCheck
  \/ DrawFromCache
  \/ EndPaint
  \/ PollReady
  \/ PollClear

\* A directory of two source files.
TextFs ==
  << >> :> "dir" @@ << "c.txt" >> :> "text-c" @@ << "e.md" >> :> "text-e"

InitLive ==
  /\ xdev = FALSE
  /\ noSearch = {}
  /\ legacy = FALSE
  /\ InitAt(TextFs, << >>, << >>, MaxKeys)

\* The workers of text jobs.
TextWorkerStep(w) ==
  \/ WText(w)
  \/ WCommit(w)
  \/ WUnlock(w)
  \/ WSetReady(w)

NextLive ==
  \/ UiStep
  \/ KeyDown
  \/ KeyUp
  \/ \E w \in 1..(MaxKeys + 1) : TextWorkerStep(w)

SpecLive ==
  /\ InitLive
  /\ [][NextLive]_vars
  /\ WF_vars(UiStep)
  /\ \A w \in 1..(MaxKeys + 1) : WF_vars(TextWorkerStep(w))

----------------------------------------------------------------------------
(* The file operations: either build, started in / or in /d *)

\* / holds the directory d, the files a and b and the hidden file .h; d
\* holds the file c.
FileFs ==
  << >> :> "dir" @@ << "d" >> :> "dir" @@ << "a" >> :> "A" @@ << "b" >> :> "B"
  @@ << ".h" >> :> "H" @@ << "d", "c" >> :> "C"

Init ==
  /\ xdev \in BOOLEAN
  /\ noSearch = {}
  /\ legacy \in BOOLEAN
  /\ \E cwd \in { << >>, << "d" >> } :
       InitAt(FileFs, cwd,
              IF legacy THEN << >> ELSE SavePins(<< << "d" >> >>), MaxOps)

Next ==
  \/ Render
  \/ KeyDown
  \/ KeyUp
  \/ KeyOpen
  \/ KeyBack
  \/ KeyTop
  \/ KeyBottom
  \/ KeyToggle
  \/ KeySelectAll
  \/ KeyEscape
  \/ KeyCopy
  \/ KeyCut
  \/ KeyPaste
  \/ KeyDelete
  \/ KeyRename
  \/ KeyNewFile
  \/ KeyNewFolder
  \/ KeyZip
  \/ KeyHidden
  \/ KeyPin
  \/ KeyTab
  \/ KeyPinDown
  \/ KeyPinUp
  \/ KeyJump
  \/ KeyUnpin
  \/ KeyResize
  \/ KeyOther
  \/ KeyQuit

Spec == Init /\ [][Next]_vars

----------------------------------------------------------------------------
(* The clipboard operations: navigation, selection, copy, cut, paste, delete *)

\* / holds the directories d and e and the file f; d holds the files c and
\* e, the second named like the directory /e.
PasteFs ==
  << >> :> "dir" @@ << "d" >> :> "dir" @@ << "e" >> :> "dir"
  @@ << "f" >> :> "F" @@ << "d", "c" >> :> "C" @@ << "d", "e" >> :> "E"

InitPaste ==
  /\ xdev \in BOOLEAN
  /\ noSearch = {}
  /\ legacy \in BOOLEAN
  /\ \E cwd \in { << >>, << "d" >> } :
       InitAt(PasteFs, cwd, << >>, MaxPasteOps)

NextPaste ==
  \/ Render
  \/ KeyDown
  \/ KeyUp
  \/ KeyOpen
  \/ KeyBack
  \/ KeyToggle
  \/ KeySelectAll
  \/ KeyCopy
  \/ KeyCut
  \/ KeyPaste
  \/ KeyDelete

SpecPaste == InitPaste /\ [][NextPaste]_vars

----------------------------------------------------------------------------
(* The directory listing: any content of the working directory *)

\* The names the working directory may hold.
DirNames == { "B", "a", ".h", "d" }

\* The filesystem in which the name n is absent, a directory or a file, as
\* kind[n] tells.
DirFs(kind) ==
  [ q \in { << >> } \cup { << n >> : n \in { m \in DirNames : kind[m] # "none" } }
      |-> IF q = << >> \/ kind[q[1]] = "dir" THEN "dir" ELSE "F" ]

InitLoad ==
  /\ xdev = FALSE
  /\ noSearch = {}
  /\ legacy \in BOOLEAN
  /\ \E kind \in [ DirNames -> { "none", "dir", "file" } ] :
       InitAt(DirFs(kind), << >>, << >>, MaxLoads)

NextLoad ==
  \/ Render
  \/ KeyHidden

SpecLoad == InitLoad /\ [][NextLoad]_vars

\* The listing with filesystem errors.
NextLoadError ==
  \/ Render
  \/ KeyHidden
  \/ KeyHiddenIoError

SpecLoadError == InitLoad /\ [][NextLoadError]_vars

----------------------------------------------------------------------------
(* Pins and navigation *)

\* Two directories with files and one whose name holds a newline.
PinFs ==
  << >> :> "dir" @@ << "d" >> :> "dir" @@ << "e" >> :> "dir"
  @@ << "x\ny" >> :> "dir"
  @@ << "d", "a" >> :> "A" @@ << "d", "b" >> :> "B" @@ << "e", "a" >> :> "A"

\* The pin files a run may find: none or empty, as an earlier run saved
\* it, with a line twice, and with an empty line and a directory since
\* removed.
PinTexts ==
  { << >>,
    SavePins(<< << "d" >> >>),
    SavePins(<< << "d" >>, << "e" >> >>),
    SavePins(<< << "d" >>, << "d" >> >>),
    << Newline >> \o SavePins(<< << "e" >>, << "g" >> >>) }

InitPins ==
  /\ xdev = FALSE
  /\ noSearch = {}
  /\ legacy = FALSE
  /\ \E cwd \in { << >>, << "d" >>, << "x\ny" >> }, text \in PinTexts :
       InitAt(PinFs, cwd, text, MaxPinOps)

NextPins ==
  \/ Render
  \/ KeyDown
  \/ KeyOpen
  \/ KeyBack
  \/ KeyPin
  \/ KeyTab
  \/ KeyPinDown
  \/ KeyPinUp
  \/ KeyJump
  \/ KeyUnpin

SpecPins == InitPins /\ [][NextPins]_vars

----------------------------------------------------------------------------
(* sendKittyGraphics on a non-empty payload (drawFromCache calls it on one) *)

\* A payload of len base64 characters.
Base64Payload(len, seed) == [ i \in 1..len |-> 65 + ((i + seed) % 3) ]

\* Payload lengths around the multiples of the chunk size.
PayloadLengths ==
  { len \in { c * chunk_size + d : c \in 0..MaxChunks, d \in -2..2 } : len > 0 }

InitKitty ==
  /\ xdev = FALSE
  /\ noSearch = {}
  /\ legacy = FALSE
  /\ InitState(<< >> :> "dir", << >>, << >>, 0)
  /\ textJob = TextIdle
  /\ \E len \in PayloadLengths, seed \in 0..2 :
       kitty = [ b64Data |-> Base64Payload(len, seed), offset |-> 0,
                 out |-> << >>, pc |-> "loop" ]

NextKitty ==
  \/ KittyChunk
  \/ KittyFlush

SpecKitty == InitKitty /\ [][NextKitty]_vars

----------------------------------------------------------------------------
(* drawKittyImage of file_manager.cpp: the encoder of the synchronous build;
   its output is the sequence of the pieces written to std::cout *)

\* "\033_G": a frame is opened.
APC == [ tok |-> "APC", val |-> << >> ]

\* "\033\\": the frame is closed.
ST == [ tok |-> "ST", val |-> << >> ]

\* The control keys up to and with the ';'.
Keys(keys) == [ tok |-> "keys", val |-> keys ]

\* The payload bytes of a frame.
Data(bytes) == [ tok |-> "data", val |-> bytes ]

\* std::cout << "\033_Gf=100,a=T,t=d,m=1,q=2;"
DrawKittyHeader ==
  /\ kitty.pc = "header"
  /\ kitty' = [ kitty EXCEPT
                  !.out = @ \o << APC, Keys(<< "f=100", "a=T", "t=d", "m=1",
                                               "q=2" >>) >>,
                  !.pc = "chunks" ]
  /\ UNCHANGED kittyFrame

\* One turn of while (offset < total): "\033_Gm=0;" or "\033_Gm=1;", the
\* chunk, "\033\\".
DrawKittyChunk ==
  /\ kitty.pc = "chunks"
  /\ kitty.offset < Len(kitty.b64Data)
  /\ LET total == Len(kitty.b64Data)
         chunk == ChunkLen(kitty.offset, total)
     IN kitty' =
          [ kitty EXCEPT
              !.out = @ \o << APC,
                              Keys(<< IF kitty.offset + chunk >= total
                                        THEN "m=0" ELSE "m=1" >>),
                              Data(SubSeq(kitty.b64Data, kitty.offset + 1,
                                          kitty.offset + chunk)),
                              ST >>,
              !.offset = @ + chunk ]
  /\ UNCHANGED kittyFrame

\* The loop ends: std::cout << std::flush.
DrawKittyFlush ==
  /\ kitty.pc = "chunks"
  /\ kitty.offset >= Len(kitty.b64Data)
  /\ kitty' = [ kitty EXCEPT !.pc = "done" ]
  /\ UNCHANGED kittyFrame

\* The payloads of drawKittyImage: those of PayloadLengths, and the empty
\* one of an empty PREVIEW_TEMP.
InitKittySync ==
  /\ xdev = FALSE
  /\ noSearch = {}
  /\ legacy = TRUE
  /\ InitState(<< >> :> "dir", << >>, << >>, 0)
  /\ textJob = TextIdle
  /\ \E len \in PayloadLengths \cup { 0 }, seed \in 0..2 :
       kitty = [ b64Data |-> Base64Payload(len, seed), offset |-> 0,
                 out |-> << >>, pc |-> "header" ]

NextKittySync ==
  \/ DrawKittyHeader
  \/ DrawKittyChunk
  \/ DrawKittyFlush

SpecKittySync == InitKittySync /\ [][NextKittySync]_vars

----------------------------------------------------------------------------
(* The text job body alone: a file, what bat and batcat print, a terminal *)

\* The files: empty; "ab\tc\nd\n"; "a\nb\nc\n"; "abcdefgh" without a
\* newline; one with a null byte; one whose only null byte is byte 513.
TextContents ==
  { << >>,
    << 97, 98, Tab, 99, Newline, 100, Newline >>,
    << 97, Newline, 98, Newline, 99, Newline >>,
    << 97, 98, 99, 100, 101, 102, 103, 104 >>,
    << 97, NUL, 98 >>,
    [ i \in 1..(BinaryProbe + 1) |-> IF i = BinaryProbe + 1 THEN NUL ELSE 97 ] }

\* What a highlighter writes to the pipe: nothing (not installed, or it
\* failed); "hi\n"; one line of 1030 bytes without a newline.
PipeOutputs ==
  { << >>, << 104, 105, Newline >>, [ i \in 1..(FgetsSize + 6) |-> 97 ] }

\* Terminal sizes: getmaxyx(stdscr, height, width)
TerminalCols == { 5, 12, 40 }

TerminalRows == { 10, 13 }

InitText ==
  /\ xdev = FALSE
  /\ noSearch = {}
  /\ legacy = FALSE
  /\ InitState(<< >> :> "dir", << >>, << >>, 0)
  /\ kitty = KittyIdle
  /\ \E content \in TextContents, bat \in PipeOutputs, batcat \in PipeOutputs,
        cols \in TerminalCols, rows \in TerminalRows :
       textJob = [ content |-> content, batOut |-> bat, batcatOut |-> batcat,
                   previewHeight |-> PreviewHeight(rows),
                   previewWidth |-> PreviewWidth(cols), lines |-> << >>,
                   gotOutput |-> FALSE, ran |-> {}, pc |-> "binary" ]

NextText ==
  \/ TextBinaryCheck
  \/ TextBat
  \/ TextBatcat
  \/ TextRaw

SpecText == InitText /\ [][NextText]_vars

----------------------------------------------------------------------------
(* Image placements: previews, navigation, resize, quit *)

\* An image beside a pinned directory that holds another image.
PlaceFs ==
  << >> :> "dir" @@ << "d" >> :> "dir" @@ << "a.png" >> :> "img-a"
  @@ << "d", "b.png" >> :> "img-b"

InitPlace ==
  /\ xdev = FALSE
  /\ noSearch = {}
  /\ legacy = FALSE
  /\ InitAt(PlaceFs, << >>, SavePins(<< << "d" >> >>), MaxPlaceKeys)

\* The workers of image jobs.
ImageWorkerStep(w) ==
  \/ WRemoveTemp(w)
  \/ WTranscode(w)
  \/ WReadTemp(w)
  \/ WCommit(w)
  \/ WUnlock(w)
  \/ WSetReady(w)

NextPlace ==
  \/ UiStep
  \/ KeyDown
  \/ KeyOpen
  \/ KeyBack
  \/ KeyTab
  \/ KeyJump
  \/ KeyResize
  \/ KeyQuit
  \/ \E w \in 1..(MaxPlaceKeys + 1) : ImageWorkerStep(w)

SpecPlace == InitPlace /\ [][NextPlace]_vars

----------------------------------------------------------------------------
(* Previews across a mutation: cut, navigation, paste over a previewed file *)

\* / holds the image a.png and the directory d, which holds another image
\* of the same name.
StaleFs ==
  << >> :> "dir" @@ << "d" >> :> "dir" @@ << "a.png" >> :> "img-a"
  @@ << "d", "a.png" >> :> "img-x"

InitStale ==
  /\ xdev = FALSE
  /\ noSearch = {}
  /\ legacy = FALSE
  /\ InitAt(StaleFs, << "d" >>, << >>, MaxStaleKeys)

NextStale ==
  \/ UiStep
  \/ KeyDown
  \/ KeyBack
  \/ KeyCut
  \/ KeyPaste
  \/ \E w \in 1..(MaxStaleKeys + 1) : ImageWorkerStep(w)

SpecStale == InitStale /\ [][NextStale]_vars

----------------------------------------------------------------------------
(* Quit with preview jobs under way *)

InitQuit ==
  /\ xdev = FALSE
  /\ noSearch = {}
  /\ legacy = FALSE
  /\ InitAt(PlaceFs, << >>, << >>, MaxQuitKeys)

NextQuit ==
  \/ UiStep
  \/ KeyDown
  \/ KeyQuit
  \/ ProcessExit
  \/ \E w \in 1..(MaxQuitKeys + 1) : ImageWorkerStep(w)
  \/ \E w \in 1..(MaxQuitKeys + 1) : WTouchDestroyed(w)

SpecQuit == InitQuit /\ [][NextQuit]_vars

----------------------------------------------------------------------------
(* A directory that can be read but not searched *)

\* A file beside an empty directory of mode r--.
DeniedFs == << >> :> "dir" @@ << "s" >> :> "dir" @@ << "f" >> :> "F"

InitDenied ==
  /\ xdev = FALSE
  /\ noSearch = { << "s" >> }
  /\ legacy \in BOOLEAN
  /\ InitAt(DeniedFs, << >>, << >>, MaxDeniedKeys)

NextDenied ==
  \/ Render
  \/ KeyDown
  \/ KeyUp
  \/ KeyOpen
  \/ KeyBack
  \/ KeyCopy
  \/ KeyCut
  \/ KeyPaste

SpecDenied == InitDenied /\ [][NextDenied]_vars

----------------------------------------------------------------------------
(* The preview pipeline: properties *)

\* C1: whenever drawFromCache paints a payload, the cache slot's path at the
\* moment the payload is read equals the path of the entry under the cursor.
PaintedPayloadIsForSelection ==
  (fromCache.read /\ fromCache.payload # EMPTY)
    => fromCache.cpath = fromCache.sel

\* C2: the thumbnail an image worker commits under path P was produced from
\* P (or is empty, when the transcoder failed): the slot last written by an
\* image worker never holds another file's thumbnail.
CommittedThumbnailIsOwn ==
  (cachedGen # 0 /\ workers[cachedGen].type = "IMAGE")
    => cachedBase64 \in { EMPTY, Thumbnail(cachedPath) }

\* C3: every write of the cache slot is made by the worker whose reqId
\* equals requestID at that time, and by a higher generation than the one
\* that wrote the slot before; a superseded worker writes nothing.
CommitOnlyByLatestGeneration ==
  [][ (<< cachedPath, cachedBase64, cachedTextLines, cachedGen >>' #
       << cachedPath, cachedBase64, cachedTextLines, cachedGen >>)
        => (cachedGen' = requestID /\ cachedGen' > cachedGen) ]_vars

\* C3 witness: requests A, B, A; the third worker has committed and the
\* first A-worker has gone through its commit step without writing.
SupersededSamePathDropped ==
  /\ Len(workers) = 3
  /\ workers[1].path = workers[3].path
  /\ workers[2].path # workers[1].path
  /\ workers[3].pc = "done"
  /\ workers[1].pc = "locked"
  /\ cachedGen = 3

AllWorkersDone == \A w \in 1..Len(workers) : workers[w].pc = "done"

\* C4: once every dispatched worker has finished, the cache slot's path is
\* the path of the last request dispatched.
FinalPathIsLastRequest == AllWorkersDone => cachedPath = requestedPath

\* C4 witness: three requests, the last for the path of the first, all
\* workers finished, and the second one finished last.
AllDoneAfterThreeRequests ==
  /\ Len(workers) = 3
  /\ AllWorkersDone
  /\ workers[1].path = workers[3].path
  /\ workers[2].path # workers[3].path
  /\ cachedPath = workers[3].path
  /\ tempFile = Thumbnail(workers[2].path)

AsyncSelected == PreviewKind(Selected) \in { "IMAGE", "TEXT" }

\* The current pass has painted from a cache slot that holds the entry under
\* the cursor.
PaintedSelected ==
  /\ fromCache.read
  /\ fromCache.sel = Selected.path
  /\ fromCache.cpath = Selected.path

\* C5: when the cursor rests on an image, video or code entry, then unless
\* a further key arrives a render pass eventually paints from a cache slot
\* committed for that entry.
PipelineLiveness ==
  \A k \in 0..MaxKeys :
    (AsyncSelected /\ keysLeft = k) ~> (PaintedSelected \/ keysLeft < k)

\* C5 witness: no key is left, the latest worker has committed and raised
\* the flag, the poll has consumed it, and the pass has painted the entry.
PaintedAfterReadyFlag ==
  /\ keysLeft = 0
  /\ requestID > 0
  /\ cachedGen = requestID
  /\ workers[requestID].pc = "done"
  /\ ~imageReady
  /\ PaintedSelected
  /\ fromCache.payload # EMPTY

\* C6: a worker holds previewMutex exactly in its commit step, never while
\* it runs the transcoder or highlighter or reads a file; so whoever holds
\* the mutex when the render loop wants it is about to release it.
WorkerLocksOnlyToCommit ==
  /\ \A w \in 1..Len(workers) :
       (previewMutex = << "worker", w >>) <=> (workers[w].pc = "locked")
  /\ previewMutex \in { Free, << "ui" >> }
       \/ \E w \in 1..Len(workers) : previewMutex = << "worker", w >>

\* C6 witness: the render loop is at its path check while one worker holds
\* the mutex for its commit and another is inside the transcoder.
RenderWaitsOnlyOnCommit ==
  /\ uiPc = "check"
  /\ \E w \in 1..Len(workers) :
       /\ previewMutex = << "worker", w >>
       /\ \E v \in 1..Len(workers) : workers[v].pc = "read"

----------------------------------------------------------------------------
(* Cursor, selection, clipboard: properties *)

CatalogPaths == { currentFiles[i].path : i \in 1..Len(currentFiles) }

\* C7: whenever the loop waits for the next key (every pane of the pass has
\* been drawn), the cursor is inside the catalog, or 0 when the catalog is
\* empty; and no handler or draw routine has indexed the catalog with a
\* cursor outside it.
CursorWithinCatalog ==
  /\ ~obs.fault
  /\ uiPc = "getch" =>
       IF currentFiles = << >> THEN selectedIndex = 0
       ELSE 0 <= selectedIndex /\ selectedIndex < Len(currentFiles)

\* C7 witness: a jump to a pin reloaded the catalog under a cursor that was
\* past its end, and the clamp of the next pass has moved the cursor to the
\* last entry.
ClampedAfterJumpToPin ==
  /\ uiPc = "getch"
  /\ obs.key = "enter"
  /\ obs.reloaded
  /\ obs.clamped
  /\ currentFiles # << >>
  /\ selectedIndex = Len(currentFiles) - 1

\* C8: after every handler that reloaded the catalogs the selection set is
\* empty.
ReloadLeavesSelectionEmpty == obs.reloaded => multiSelection = {}

\* C8 witness: entries were selected and the cursor's directory entered; the
\* reload has emptied the selection.
SelectionGoneAfterEnter ==
  /\ obs.key = "l"
  /\ obs.reloaded
  /\ obs.selBefore # {}
  /\ multiSelection = {}

\* C9: every path in the selection set is the path of an entry of the
\* current catalog.
SelectionWithinCatalog == multiSelection \subseteq CatalogPaths

\* C9 witness: a multi-selected entry has been renamed; its old path is gone
\* from the filesystem and the selection does not hold it.
RenamedSelectedEntry ==
  /\ obs.key = "r"
  /\ obs.reloaded
  /\ \E p \in obs.selBefore : ~Exists(fs, p) /\ p \notin multiSelection

\* C10: a paste empties the clipboard exactly when the clipboard was in cut
\* mode and successCount is positive; otherwise paths and mode are what they
\* were; a paste on an empty clipboard reports "Clipboard empty" and does
\* nothing.
PasteEmptiesOnlyOnCutSuccess ==
  obs.key = "p" =>
    /\ clipboard.isCut = obs.clipBefore.isCut
    /\ IF obs.clipBefore.paths = << >>
         THEN /\ statusMessage = "Clipboard empty"
              /\ clipboard = obs.clipBefore
              /\ ~obs.reloaded
         ELSE /\ statusMessage # "Clipboard empty"
              /\ (clipboard.paths = << >>)
                   <=> (obs.clipBefore.isCut /\ obs.successCount > 0)
              /\ clipboard.paths # << >> => clipboard = obs.clipBefore

\* C10 witness: a paste on a clipboard that an earlier cut-mode paste has
\* emptied reports "Clipboard empty".
PasteAfterCutPasteFindsEmpty ==
  /\ obs.key = "p"
  /\ obs.clipBefore.isCut
  /\ obs.clipBefore.paths = << >>
  /\ statusMessage = "Clipboard empty"

----------------------------------------------------------------------------
(* Paste: properties *)

\* The step is handlePaste working on a clipboard that holds paths.
PasteStep ==
  /\ obs'.key = "p"
  /\ keysLeft' = keysLeft - 1
  /\ clipboard.paths # << >>

\* Where handlePaste puts the clipboard path src.
PasteDest(src) == Join(currentPath, Filename(src))

\* C11: a copy-mode paste leaves every path that existed with the content it
\* had; an item whose destination exists (the item itself included) adds
\* nothing below that destination and is not counted as pasted.
CopyPasteKeepsExistingEntries ==
  [][ (PasteStep /\ ~clipboard.isCut) =>
        /\ \A q \in DOMAIN fs : q \in DOMAIN fs' /\ fs'[q] = fs[q]
        /\ \A i \in 1..Len(clipboard.paths) :
             Exists(fs, PasteDest(clipboard.paths[i])) =>
               Subtree(fs', PasteDest(clipboard.paths[i]))
                 = Subtree(fs, PasteDest(clipboard.paths[i]))
        /\ obs'.successCount <=
             Cardinality({ i \in 1..Len(clipboard.paths) :
                             ~Exists(fs, PasteDest(clipboard.paths[i])) }) ]_vars

\* C11 witness: a copy-mode paste has met a destination that exists and is
\* not its source (a file named like a directory of the target) and has
\* pasted nothing.
CopySkippedExistingDestination ==
  /\ obs.key = "p"
  /\ ~obs.clipBefore.isCut
  /\ obs.successCount = 0
  /\ \E i \in 1..Len(obs.clipBefore.paths) :
       LET src == obs.clipBefore.paths[i]
       IN /\ src # PasteDest(src)
          /\ Exists(fs, src)
          /\ Exists(fs, PasteDest(src))
          /\ fs[PasteDest(src)] # fs[src]

\* What the filesystem f holds at and below path p.
TreeAt(f, p) == Restrict(f, Subtree(f, p))

\* C12: in a cut-mode paste an item whose atomic move fails for a reason
\* other than a cross-device condition is neither copied nor deleted: its
\* source and its destination hold what they held.
CutFallbackOnlyAcrossDevices ==
  [][ (PasteStep /\ clipboard.isCut) =>
        \A i \in 1..Len(clipboard.paths) :
          LET src == clipboard.paths[i]
              r == Rename(fs, src, PasteDest(src), xdev)
          IN (~r.ok /\ r.err # "EXDEV") =>
               /\ TreeAt(fs', src) = TreeAt(fs, src)
               /\ TreeAt(fs', PasteDest(src)) = TreeAt(fs, PasteDest(src)) ]_vars

\* The item src can be pasted on its own: it exists, its destination does
\* not, is not inside it and fits the path-length limit, and a move by the
\* build without the copy fallback stays on one device.
Pastable(src) ==
  /\ Exists(fs, src)
  /\ ~Exists(fs, PasteDest(src))
  /\ IsDirectory(fs, currentPath)
  /\ ~IsPrefix(src, PasteDest(src))
  /\ \A q \in Subtree(fs, src) : Len(Rebase(q, src, PasteDest(src))) <= MaxDepth
  /\ (clipboard.isCut /\ legacy) => Device(src, xdev) = Device(PasteDest(src), xdev)

\* C13: whatever happens to the other items of a paste, every item that can
\* be pasted on its own is pasted (its tree is at the destination, and gone
\* from the source on cut), and the catalogs are reloaded from the
\* filesystem the paste leaves.
PasteAttemptsEveryItem ==
  [][ PasteStep =>
        /\ \A i \in 1..Len(clipboard.paths) :
             LET src == clipboard.paths[i]
             IN Pastable(src) =>
                  /\ \A q \in Subtree(fs, src) :
                       /\ Exists(fs', Rebase(q, src, PasteDest(src)))
                       /\ fs'[Rebase(q, src, PasteDest(src))] = fs[q]
                  /\ clipboard.isCut => ~Exists(fs', src)
        /\ obs'.reloaded
        /\ currentFiles' = LoadDirectory(fs', currentPath, showHidden)
        /\ parentFiles' = LoadParent(fs', currentPath, showHidden) ]_vars

\* C13 witness: a paste of several items in which an earlier item failed
\* (it is still at its source and not at its destination) and a later item
\* was moved.
PasteWentOnAfterFailure ==
  /\ obs.key = "p"
  /\ obs.clipBefore.isCut
  /\ obs.reloaded
  /\ \E i, j \in 1..Len(obs.clipBefore.paths) :
       /\ i < j
       /\ Exists(fs, obs.clipBefore.paths[i])
       /\ obs.clipBefore.paths[i] # PasteDest(obs.clipBefore.paths[i])
       /\ ~Exists(fs, obs.clipBefore.paths[j])
       /\ Exists(fs, PasteDest(obs.clipBefore.paths[j]))

----------------------------------------------------------------------------
(* Catalog: properties *)

\* The entries of the working directory that the hidden-file flag lets
\* through.
Visible ==
  { q \in Children(fs, currentPath) :
      showHidden \/ NameBytes[Filename(q)][1] # Dot }

\* C14: the catalog holds each visible entry of the directory exactly once,
\* every directory before every file, and directories and files each in
\* strictly increasing byte order of their names.
CatalogListsVisibleInOrder ==
  /\ CatalogPaths = Visible
  /\ Len(currentFiles) = Cardinality(Visible)
  /\ \A i \in 1..Len(currentFiles) :
       currentFiles[i].is_directory = IsDirectory(fs, currentFiles[i].path)
  /\ \A i, j \in 1..Len(currentFiles) :
       i < j =>
         /\ currentFiles[i].is_directory \/ ~currentFiles[j].is_directory
         /\ currentFiles[i].is_directory = currentFiles[j].is_directory
              => NameLess(currentFiles[i].name, currentFiles[j].name)

\* C14 witness: hidden files were switched on and the catalog lists two
\* directories, the upper-case one first, and then the hidden file before
\* another file.
CatalogWithHiddenAndUpperCase ==
  /\ obs.key = "."
  /\ showHidden
  /\ Len(currentFiles) = 4
  /\ currentFiles[1].name = "B" /\ currentFiles[1].is_directory
  /\ currentFiles[2].name = "a" /\ currentFiles[2].is_directory
  /\ currentFiles[3].name = ".h"
  /\ currentFiles[4].name = "d"

\* C15: a catalog load that met a filesystem error leaves the catalog empty.
LoadErrorLeavesCatalogEmpty == obs.ioError => currentFiles = << >>

----------------------------------------------------------------------------
(* Navigation and pins: properties *)

\* The leaf name of the directory a step leaves ("" for the root).
PreviousLeaf == IF currentPath = << >> THEN "" ELSE Filename(currentPath)

\* C16: a step that changes the working directory leaves the cursor on the
\* entry of the new catalog named like the directory left, when there is
\* one, and on index 0 otherwise.
CursorFollowsPreviousLeaf ==
  [][ currentPath' # currentPath =>
        IF \E i \in 1..Len(currentFiles') :
             currentFiles'[i].name = PreviousLeaf
          THEN /\ selectedIndex' < Len(currentFiles')
               /\ currentFiles'[selectedIndex' + 1].name = PreviousLeaf
          ELSE selectedIndex' = 0 ]_vars

\* C17: no directory is in the pin list twice.
NoDirectoryPinnedTwice ==
  \A i, j \in 1..Len(pinnedPaths) :
    pinnedPaths[i] = pinnedPaths[j] => i = j

\* A key handler's step that takes an entry off the pin list.
UnpinStep ==
  /\ obs'.key = "d"
  /\ keysLeft' = keysLeft - 1
  /\ focusPinned
  /\ pinnedPaths # << >>

\* C18: after every step the pin cursor is below the length of a non-empty
\* pin list and 0 on an empty one; an unpin takes away the entry at the pin
\* cursor and nothing else, the others keeping their order.
PinCursorInRangeAndUnpinExact ==
  [][ /\ pinnedPaths' = << >> => pinnedIndex' = 0
      /\ pinnedPaths' # << >> => pinnedIndex' < Len(pinnedPaths')
      /\ UnpinStep =>
           /\ Len(pinnedPaths') = Len(pinnedPaths) - 1
           /\ \A k \in 1..Len(pinnedPaths') :
                pinnedPaths'[k] =
                  pinnedPaths[IF k <= pinnedIndex THEN k ELSE k + 1] ]_vars

\* C18 witness: the first of two pins was taken off, the second one is
\* left and the pin cursor is on it.
UnpinnedFirstOfTwo ==
  /\ obs.key = "d"
  /\ focusPinned
  /\ statusMessage = "Unpinned"
  /\ pinnedPaths = << << "e" >> >>
  /\ pinnedIndex = 0

\* The lines of the pin file, the last one ended by its newline.
PinFileLines ==
  LET runs == Split(pinFile, Newline)
  IN SubSeq(runs, 1, Len(runs) - 1)

\* C19: after a pin or unpin that changed the pin list, the lines of the
\* pin file are the paths of the list, in order, and loading the file
\* while every pinned directory exists gives the list back.
PinFileMirrorsPinList ==
  [][ pinnedPaths' # pinnedPaths =>
        /\ PinFileLines' =
             [ i \in 1..Len(pinnedPaths') |-> PathString(pinnedPaths'[i]) ]
        /\ (\A i \in 1..Len(pinnedPaths') : Exists(fs', pinnedPaths'[i]))
             => LoadPins(pinFile', fs') = pinnedPaths' ]_vars

\* The step of a Tab key.
TabStep == obs'.key = "tab" /\ keysLeft' = keysLeft - 1

\* C20: a Tab inverts the focus flag and leaves the working directory, both
\* catalogs, the cursor, the selection, the clipboard, the pin list, the
\* pin cursor and the preview cache as they were.
TabChangesOnlyFocus ==
  [][ TabStep =>
        /\ focusPinned' = ~focusPinned
        /\ UNCHANGED << currentPath, currentFiles, parentFiles, selectedIndex,
                        multiSelection, clipboard, pinnedPaths, pinnedIndex,
                        pinFile, fs, showHidden, cachedBase64,
                        cachedTextLines, cachedPath, imageReady,
                        lastWasDirectRender, placements >> ]_vars

\* C20 witness: with the cursor moved down, a second Tab has handed the
\* keys back to the files pane.
TabbedBackToFiles ==
  /\ obs.key = "tab"
  /\ ~focusPinned
  /\ selectedIndex = 1
  /\ keysLeft <= MaxPinOps - 3

----------------------------------------------------------------------------
(* Graphics: properties *)

\* The more / final marker of a chunk: its last control key.
Marker(chunk) == chunk.keys[Len(chunk.keys)]

\* C21: when sendKittyGraphics returns, it has written ceil(L / chunk_size)
\* chunks whose payloads, in order, make up the payload it was given; every
\* chunk but the last holds chunk_size characters and m=1, the last holds
\* m=0.
ChunksRebuildPayload ==
  kitty.pc = "done" =>
    LET total == Len(kitty.b64Data)
        n == Len(kitty.out)
    IN /\ n = (total + chunk_size - 1) \div chunk_size
       /\ Flatten([ i \in 1..n |-> kitty.out[i].payload ]) = kitty.b64Data
       /\ \A i \in 1..(n - 1) :
            /\ Len(kitty.out[i].payload) = chunk_size
            /\ Marker(kitty.out[i]) = "m=1"
       /\ Marker(kitty.out[n]) = "m=0"

\* C21 witness: a payload of exactly two full chunks was sent.
SentExactMultiple ==
  /\ kitty.pc = "done"
  /\ Len(kitty.b64Data) = 2 * chunk_size
  /\ Len(kitty.out) = 2

\* C22: the first chunk written holds the placement metadata and a marker,
\* every later chunk a marker alone.
OnlyFirstChunkPlaces ==
  \A i \in 1..Len(kitty.out) :
    \E m \in { "m=0", "m=1" } :
      kitty.out[i].keys =
        IF i = 1 THEN << "a=T", "f=100", "t=d", "q=2", m >> ELSE << m >>

\* C22 witness: a payload that fits in one chunk went out as one chunk with
\* the metadata and the final marker.
SentSingleChunk ==
  /\ kitty.pc = "done"
  /\ Len(kitty.out) = 1
  /\ kitty.out[1].keys = << "a=T", "f=100", "t=d", "q=2", "m=0" >>

\* C23: never are two image placements live on the terminal, and a step
\* that changes the working directory or handles a resize ends with none
\* live.
PlacementsDeletedInTime ==
  [][ /\ placements' <= 1
      /\ ( \/ currentPath' # currentPath
           \/ (obs'.key = "resize" /\ keysLeft' = keysLeft - 1) )
           => placements' = 0 ]_vars

\* C24: once run() has returned on 'q' no image placement is live.
QuitLeavesNoPlacement == uiPc = "quit" => placements = 0

\* C24 witness: the last render pass painted an image and 'q' followed.
QuitAfterImagePainted ==
  /\ uiPc = "quit"
  /\ obs.key = "q"
  /\ fromCache.read
  /\ fromCache.payload = Thumbnail(<< "a.png" >>)
  /\ placements = 0

----------------------------------------------------------------------------
(* The render loop and the handlers: properties *)

\* What the panes and the status line show.
shownVars ==
  << fs, currentPath, currentFiles, parentFiles, multiSelection, pinnedPaths,
     pinnedIndex, focusPinned, selectedIndex, clipboard, statusMessage,
     showHidden >>

\* C25: the loop asks for a render pass only in a step that changed what is
\* shown (or resized the layout), or on a ready flag raised while the cache
\* slot holds the preview of the selected entry.
RenderOnlyOnChange ==
  [][ (~needsRedraw /\ needsRedraw' /\ uiPc' # "quit") =>
        \/ shownVars' # shownVars
        \/ (obs'.key = "resize" /\ keysLeft' = keysLeft - 1)
        \/ /\ imageReady
           /\ keysLeft' = keysLeft
           /\ selectedIndex < Len(currentFiles)
           /\ cachedPath = Selected.path ]_vars

\* C26: a handler that returns on an empty answer to its prompt, or on an
\* answer other than y to the delete confirmation, leaves the filesystem,
\* the working directory, both catalogs, the cursor, the selection and the
\* clipboard as they were.
AbortHasNoSideEffect ==
  [][ (obs'.aborted /\ keysLeft' = keysLeft - 1) =>
        UNCHANGED << fs, currentPath, currentFiles, parentFiles,
                     selectedIndex, multiSelection, clipboard >> ]_vars

\* C26 witness: a delete of selected entries was not confirmed and the
\* selection is still there.
DeleteOfSelectionDeclined ==
  /\ obs.aborted
  /\ obs.key = "d"
  /\ multiSelection # {}
  /\ \A p \in multiSelection : Exists(fs, p)

\* The status lines that report a success of rename, folder creation and
\* delete.
SuccessMessages ==
  { "Renamed", "Deleted items", "Created folder" }
    \cup { "Renamed to " \o n : n \in PromptNames }
    \cup { "Created folder: " \o n : n \in PromptNames \cup { "d" } }

\* C27: a rename that failed, a folder creation that made no folder, and a
\* delete that left one of its targets leave a status line that is neither
\* empty nor a success message.
FailureIsReported ==
  [][ ( /\ keysLeft' = keysLeft - 1
        /\ ~focusPinned
        /\ ~obs'.aborted
        /\ \/ obs'.key = "N" /\ fs' = fs
           \/ /\ obs'.key = "r"
              /\ currentFiles # << >> /\ ~obs'.fault /\ ~obs'.reloaded
           \/ /\ obs'.key = "d"
              /\ obs'.reloaded
              /\ \E i \in 1..Len(Targets) : Exists(fs', Targets[i]) )
        => /\ statusMessage' # ""
           /\ statusMessage' \notin SuccessMessages ]_vars

\* C28: no exception of a filesystem call leaves its handler: the process
\* is never ended by std::terminate.
NoErrorEscapesHandler == uiPc # "terminated"

----------------------------------------------------------------------------
(* Dispatch and locking: properties *)

\* C29: a step dispatches a job only for the selected entry, with neither
\* the cache slot's path nor the latest requested path equal to its path,
\* and adds one to the request counter; the jobs so far hold the ids 1 to
\* requestID, and no two jobs in a row are for the same path (a second job
\* for an entry needs a job for another entry in between).
DispatchOncePerSelection ==
  [][ /\ requestID' # requestID =>
           /\ cachedPath # Selected.path
           /\ requestedPath # Selected.path
           /\ requestID' = requestID + 1
           /\ workers'[requestID'].path = Selected.path
      /\ Len(workers') = requestID'
      /\ \A i \in 1..(Len(workers') - 1) :
           workers'[i].path # workers'[i + 1].path ]_vars

\* C29 witness: a second render pass over the same entry, whose job has
\* not committed yet, has ended without another job.
SecondPassStartedNoJob ==
  /\ obs.key = "k"
  /\ uiPc = "getch"
  /\ ~needsRedraw
  /\ Len(workers) = 1
  /\ requestedPath = Selected.path
  /\ cachedPath # Selected.path

\* C30: a step that writes a field of the cache slot, the request counter
\* or the latest requested path is taken by a thread that holds the preview
\* mutex when the step ends.
SharedFieldsWrittenUnderLock ==
  [][ << cachedPath, cachedBase64, cachedTextLines, requestID, requestedPath >>'
        # << cachedPath, cachedBase64, cachedTextLines, requestID,
             requestedPath >>
        => previewMutex' # Free ]_vars

----------------------------------------------------------------------------
(* Catalogs, selection, clipboard and pane focus: properties *)

\* C31: after a key whose handler changed the filesystem, the working
\* directory or the show-hidden flag, the current catalog is what a load of
\* the working directory under the flag yields, and the parent catalog is
\* what a load of the parent directory yields (empty at the root).
CatalogsFreshAfterChange ==
  [][ ( /\ keysLeft' = keysLeft - 1
        /\ uiPc' # "terminated"
        /\ << fs, currentPath, showHidden >>' # << fs, currentPath, showHidden >> )
        => /\ currentFiles' = LoadDirectory(fs', currentPath', showHidden')
           /\ parentFiles' = LoadParent(fs', currentPath', showHidden') ]_vars

\* C31 witness: a paste in / has copied /d/c to /c, and the catalog of /
\* lists the copy.
PastedCopyIsListed ==
  /\ obs.key = "p"
  /\ obs.successCount = 1
  /\ currentPath = << >>
  /\ Exists(fs, << "c" >>)
  /\ \E i \in 1..Len(currentFiles) : currentFiles[i].path = << "c" >>
  /\ parentFiles = << >>

\* C32: a toggle on a catalog with entries changes the membership in the
\* selection of the entry that was under the cursor and of no other path,
\* and moves the cursor down by one unless it was on the last entry; on an
\* empty catalog it changes neither; filesystem, working directory,
\* catalogs and clipboard stay as they were.
ToggleFlipsCursorEntry ==
  [][ (obs'.key = "space" /\ keysLeft' = keysLeft - 1) =>
        /\ UNCHANGED << fs, currentPath, currentFiles, parentFiles, clipboard >>
        /\ IF currentFiles = << >>
             THEN UNCHANGED << multiSelection, selectedIndex >>
             ELSE /\ selectedIndex < Len(currentFiles)
                  /\ (currentFiles[selectedIndex + 1].path \in multiSelection')
                       # (currentFiles[selectedIndex + 1].path \in multiSelection)
                  /\ \A q \in (multiSelection \cup multiSelection')
                                \ { currentFiles[selectedIndex + 1].path } :
                       q \in multiSelection /\ q \in multiSelection'
                  /\ selectedIndex' =
                       IF selectedIndex = Len(currentFiles) - 1
                         THEN selectedIndex ELSE selectedIndex + 1 ]_vars

\* C32 witness: in /d, whose only entry is c, a second toggle has taken c
\* out of the selection again, the cursor staying on the last entry.
ToggledOffOnLastEntry ==
  /\ obs.key = "space"
  /\ obs.selBefore = { << "d", "c" >> }
  /\ multiSelection = {}
  /\ currentPath = << "d" >>
  /\ selectedIndex = 0

\* C33: a copy or cut on a catalog with entries leaves a clipboard that
\* holds, once each, the selected paths when there were any and else the
\* path under the cursor, nothing of what it held before, and the mode of
\* the key; the selection is empty afterwards.  On an empty catalog
\* clipboard and selection stay as they were.
CopyCutReplacesClipboard ==
  [][ (obs'.key \in { "y", "x" } /\ keysLeft' = keysLeft - 1) =>
        IF currentFiles = << >>
          THEN UNCHANGED << clipboard, multiSelection >>
          ELSE /\ selectedIndex < Len(currentFiles)
               /\ { clipboard'.paths[i] : i \in 1..Len(clipboard'.paths) } =
                    IF multiSelection # {} THEN multiSelection
                    ELSE { currentFiles[selectedIndex + 1].path }
               /\ Len(clipboard'.paths) =
                    IF multiSelection # {} THEN Cardinality(multiSelection)
                    ELSE 1
               /\ clipboard'.isCut = (obs'.key = "x")
               /\ multiSelection' = {} ]_vars

\* C33 witness: a cut of /d has replaced a clipboard that held the copy of
\* /d/c.
CutReplacedCopiedPath ==
  /\ obs.key = "x"
  /\ obs.clipBefore = [ paths |-> << << "d", "c" >> >>, isCut |-> FALSE ]
  /\ clipboard = [ paths |-> << << "d" >> >>, isCut |-> TRUE ]
  /\ multiSelection = {}

\* The pins of before are all still there, at their places.
PinsKept ==
  /\ Len(pinnedPaths') >= Len(pinnedPaths)
  /\ \A i \in 1..Len(pinnedPaths) : pinnedPaths'[i] = pinnedPaths[i]

\* C34 as stated: with the focus on the pinned pane no key changes the
\* filesystem, the selection or the clipboard, and no key but Enter changes
\* the working directory or a catalog; with the focus on the files pane no
\* key moves the pin cursor or removes a pin.
PinnedPaneKeepsSelection ==
  [][ keysLeft' = keysLeft - 1 =>
        /\ focusPinned =>
              /\ UNCHANGED << fs, multiSelection, clipboard >>
              /\ obs'.key # "enter" =>
                    UNCHANGED << currentPath, currentFiles, parentFiles >>
        /\ ~focusPinned => (pinnedIndex' = pinnedIndex /\ PinsKept) ]_vars

\* C34: with the focus on the pinned pane no key changes the filesystem or
\* the clipboard, and no key but Enter changes the working directory, a
\* catalog or the selection; an Enter on a pin makes the pin the working
\* directory, loads its catalog and leaves the selection empty.  With the
\* focus on the files pane no key moves the pin cursor or removes a pin.
PinnedPaneTouchesOnlyPins ==
  [][ keysLeft' = keysLeft - 1 =>
        /\ focusPinned =>
              /\ UNCHANGED << fs, clipboard >>
              /\ IF obs'.key = "enter" /\ pinnedPaths # << >>
                   THEN /\ multiSelection' = {}
                        /\ pinnedIndex < Len(pinnedPaths)
                        /\ currentPath' = pinnedPaths[pinnedIndex + 1]
                        /\ currentFiles' =
                             LoadDirectory(fs, currentPath', showHidden)
                   ELSE UNCHANGED << currentPath, currentFiles, parentFiles,
                                     multiSelection >>
        /\ ~focusPinned => (pinnedIndex' = pinnedIndex /\ PinsKept) ]_vars

\* C34 witness: with an entry of / selected, Enter in the pinned pane has
\* jumped to the pin /d and the selection is empty.
JumpEmptiedSelection ==
  /\ obs.key = "enter"
  /\ obs.reloaded
  /\ obs.selBefore # {}
  /\ multiSelection = {}
  /\ currentPath = << "d" >>
  /\ ~focusPinned

----------------------------------------------------------------------------
(* The text job body: properties *)

\* C35: a finished text job of a binary file holds the marker line alone
\* and has run no highlighter; of any other file it has run bat, has run
\* batcat exactly when bat gave no line, and has run the raw reader exactly
\* when neither gave a line; what the raw reader leaves has no more lines
\* than the pane (none when the pane has no line), and no line longer than
\* the pane is wide.
TextJobFallbackChain ==
  textJob.pc = "commit" =>
    IF is_binary_file(textJob.content)
      THEN textJob.lines = << BinaryMarker >> /\ textJob.ran = {}
      ELSE /\ "bat" \in textJob.ran
           /\ "batcat" \in textJob.ran <=> FgetsLines(textJob.batOut) = << >>
           /\ "raw" \in textJob.ran <=>
                (/\ FgetsLines(textJob.batOut) = << >>
                 /\ FgetsLines(textJob.batcatOut) = << >>)
           /\ "raw" \in textJob.ran =>
                /\ Len(textJob.lines) <= textJob.previewHeight
                     \/ textJob.lines = << >>
                /\ \A i \in 1..Len(textJob.lines) :
                     \/ Len(textJob.lines[i]) <= textJob.previewWidth
                     \/ textJob.lines[i] = << >>

----------------------------------------------------------------------------
(* Mutations: properties *)

\* Every path of the tree f held at src is in g under root, with the
\* content it had.
HeldAt(f, src, g, root) ==
  \A q \in Subtree(f, src) :
    /\ Exists(g, Rebase(q, src, root))
    /\ g[Rebase(q, src, root)] = f[q]

\* C36: after a cut-mode paste every clipboard item that existed is, with
\* everything below it, still at its source path or at its destination
\* path; an item whose source is gone is at its destination.
CutPasteKeepsEveryItem ==
  [][ (PasteStep /\ clipboard.isCut) =>
        \A i \in 1..Len(clipboard.paths) :
          Exists(fs, clipboard.paths[i]) =>
            \/ HeldAt(fs, clipboard.paths[i], fs', clipboard.paths[i])
            \/ HeldAt(fs, clipboard.paths[i], fs',
                      PasteDest(clipboard.paths[i])) ]_vars

\* C37: after a paste, a payload that a job for the selected path had put
\* into the cache slot before the paste (the slot has not been written
\* since) is painted only if it was made from what the file at that path
\* holds now: not if the paste replaced the file.
NoStalePayloadPainted ==
  ( /\ uiPc = "painted"
    /\ fromCache.read
    /\ fromCache.payload # EMPTY
    /\ fromCache.cpath = fromCache.sel
    /\ fromCache.payload[2] = fromCache.sel
    /\ obs.key = "p"
    /\ obs.slotGen = cachedGen )
    => fromCache.payload[3] = fs[fromCache.sel]

\* C38: the new-file key leaves every entry that exists with the content
\* it has: a name that exists creates nothing and truncates nothing.
NewFileKeepsExistingEntries ==
  [][ (obs'.key = "n" /\ keysLeft' = keysLeft - 1) =>
        \A q \in DOMAIN fs : Exists(fs', q) /\ fs'[q] = fs[q] ]_vars

----------------------------------------------------------------------------
(* Teardown: properties *)

\* C39: once run() has returned and the FileManager is destroyed, no worker
\* takes a step of its commit block or raises the flag: the workers that
\* are at the commit, hold the lock or are about to set the flag stay
\* where they are.
NoCommitAfterTeardown ==
  [][ uiPc = "quit" =>
        \A w \in 1..Len(workers) :
          workers[w].pc \in { "commit", "locked", "flag" } =>
            (workers'[w].pc = workers[w].pc /\ uiPc' # "crashed") ]_vars

----------------------------------------------------------------------------
(* The encoder of the synchronous build: properties *)

\* C40: in what drawKittyImage has written, every frame opener is followed
\* by a terminator before the next opener (the last one before the end),
\* and the control keys that carry the placement (a=T) are followed by
\* payload bytes in their frame.
SyncFramesClosedAndPlacementWithData ==
  kitty.pc = "done" =>
    /\ \A i \in 1..Len(kitty.out) :
         kitty.out[i].tok = "APC" =>
           \E k \in (i + 1)..Len(kitty.out) :
             /\ kitty.out[k].tok = "ST"
             /\ \A j \in (i + 1)..k : kitty.out[j].tok # "APC"
    /\ \A i \in 1..Len(kitty.out) :
         (kitty.out[i].tok = "keys" /\ \E n \in 1..Len(kitty.out[i].val) :
                                         kitty.out[i].val[n] = "a=T") =>
           /\ i < Len(kitty.out)
           /\ kitty.out[i + 1].tok = "data"
           /\ kitty.out[i + 1].val # << >>

====
